---- MODULE Spec2Model ----
(***************************************************************************)
(* Model of the retrieval core of rag-book-recommender:                    *)
(*   src/src/retriever/vector_store.py   VectorStore (add/search/save/load)*)
(*   src/src/retriever/retriever.py      Retriever (retrieve, rerank)      *)
(*   src/src/pipeline/rag_pipeline.py    RAGPipeline.run                   *)
(*   src/src/generator/rag_generator.py  RAGGenerator.generate             *)
(*                                                                         *)
(* Python indices are kept 0-based where the code handles them (FAISS ids),*)
(* TLA+ sequences are 1-based, so metadata[idx] of the code is             *)
(* metadata[idx + 1] here.  Floating point values are exact rationals.     *)
(***************************************************************************)
EXTENDS Integers, Sequences, FiniteSets, TLC

VARIABLES
  index,        \* rows held by self.index (faiss.IndexFlatL2), insertion order
  metadata,     \* self.metadata, the list aligned with the rows of index
  disk,         \* the file system: path -> artifact
  pc,           \* position of each thread inside the call it is running
  addLocal,     \* add: the metas of the call in flight (after line 87)
  searchLocal,  \* search: locals of the call in flight (after line 112)
  saveLocal,    \* save: the paths of the call in flight (after line 153)
  frame,        \* locals of the Retriever and pipeline calls in flight
  recommend_counts, \* the service's self._recommend_counts: title -> count
  added,        \* history: the (row, meta) pairs accepted by add, in order
  ret,          \* what the last call returned or raised; none while a call runs
  cls           \* the class attributes of BookRecommendationService

vars ==
  <<index, metadata, disk, pc, addLocal, searchLocal, saveLocal, frame, recommend_counts,
    added, ret, cls>>

-----------------------------------------------------------------------------
(* Bounds of the model.                                                    *)

\* docs handed to format_docs_for_llm at once
MaxListed == 6
\* results returned by one service, and books recommended in one result
MaxCalls == 2
MaxBooks == 2

\* dimension of the index under test (VectorStore(dim=Dim))
Dim == 1
\* rows of the index in the runs of add, save and load
MaxItems == 2
\* rows of the index in the runs of add and search
MaxRows == 3
\* rows of one add call
MaxBatch == 2
\* largest k asked of search
MaxK == 3

\* books indexed for the Retriever
MaxShelf == 2

\* largest n_recs of a pipeline run
MaxRecs == 2

\* books indexed for the service
MaxServed == 1

\* clauses after the subject of a query given to parse_filters
MaxClauses == 2

\* OllamaConfig.retries of the generators that are called
MaxRetries == 2

\* coordinate values of the vectors added to the store
Coords == {0, 1}

\* coordinate values of the query vectors
QueryCoords == {0, 1, 2}

-----------------------------------------------------------------------------
(* Generic helpers.                                                        *)

Min(a, b) == IF a <= b THEN a ELSE b

Max(a, b) == IF a >= b THEN a ELSE b

SeqsUpTo(S, n) == UNION {[1..m -> S] : m \in 0..n}

Range(s) == {s[i] : i \in DOMAIN s}

\* a vector of d equal coordinates
ConstVec(d, c) == [i \in 1..d |-> c]

VecPool(d) == {ConstVec(d, c) : c \in Coords}

QueryVecs == {ConstVec(Dim, c) : c \in QueryCoords}

\* the model stops adding when the index would exceed cap rows
Fits(vectors, cap) == Len(index) + vectors.n <= cap

-----------------------------------------------------------------------------
(* Catalog records (the metadata dicts written by scripts/build_index.py). *)
(* rating: [kind |-> "none"] or [kind |-> "num", v |-> tenths of a star].  *)
(* genres: the comma-separated labels, each label its words, held as one     *)
(* string (kind "str", what rerank_results expects) or as a list (kind "list",*)
(* what build_corpus writes).  pages: absent or a number.  text: the words  *)
(* of retrieval_text.                                                      *)

None == [kind |-> "none", v |-> 0]

Num(v) == [kind |-> "num", v |-> v]

NoRating == None

NoPages == None

GenreStr(labels) == [kind |-> "str", labels |-> labels]

GenreList(labels) == [kind |-> "list", labels |-> labels]

Book(title, author, rating, genres, pages, text) ==
  [title |-> title, author |-> author, rating |-> rating, genres |-> genres,
   pages |-> pages, text |-> text]

\* the records used to exercise the store
StoreMetas ==
  {Book("Dune", "Herbert", Num(43), GenreStr(<<<<"Science", "Fiction">>>>), Num(600),
        <<"dark", "space", "kingdom">>),
   Book("Emma", "Austen", NoRating, GenreStr(<<<<"Romance">>>>), NoPages,
        <<"cozy", "love", "wedding">>)}

-----------------------------------------------------------------------------
(* numpy arrays handed to add: ndim, len() and shape[1] as numpy reports   *)
(* them, and the rows of a 2-d array.                                      *)

Array2(cols, rows) == [ndim |-> 2, n |-> Len(rows), cols |-> cols, rows |-> rows]

Array1(n) == [ndim |-> 1, n |-> n, cols |-> 0, rows |-> <<>>]

\* arrays of the index's dimension, arrays one column too wide, 1-d arrays
AddArrays ==
  {Array2(Dim, rs) : rs \in SeqsUpTo(VecPool(Dim), MaxBatch)}
    \cup {Array2(Dim + 1, rs) : rs \in SeqsUpTo({ConstVec(Dim + 1, 0)}, MaxBatch)}
    \cup {Array1(n) : n \in 0..1}

AddMetas == SeqsUpTo(StoreMetas, MaxBatch)

-----------------------------------------------------------------------------
(* Files.                                                                  *)

IndexPaths == {"faiss_index.bin"}

MetaPaths == {"metadata.pkl", "metadata_v2.pkl"}

Missing == [kind |-> "missing", data |-> <<>>]

File(data) == [kind |-> "file", data |-> data]

Exists(path) == disk[path].kind # "missing"

-----------------------------------------------------------------------------
(* Threads and their idle state.                                           *)

Threads == {"add", "search", "save", "load", "retrieve", "run", "recommend",
            "parse", "ollama", "generate", "service_a", "service_b", "context"}

\* the threads that keep the locals of their call in frame
Framed == {"retrieve", "run", "recommend", "parse", "ollama", "generate",
           "service_a", "service_b", "context"}

NoLocal == [k |-> 0]

NoRet == [op |-> "none", res |-> "none"]

Idle(t) == pc[t] = "idle"

\* the calls of the single-threaded specifications never overlap
Alone(t) == \A u \in Threads \ {t} : Idle(u)

-----------------------------------------------------------------------------
(* VectorStore.add                                                          *)

\* some vector of the array has a length other than dim
SomeRowNotDim(vectors) == \E i \in DOMAIN vectors.rows : Len(vectors.rows[i]) # Dim

\* line 76: the array is not (*, dim)
DimBad(vectors) == vectors.ndim # 2 \/ vectors.cols # Dim

\* line 82
LenBad(vectors, metas) == vectors.n # Len(metas)

\* the two checks of add taken in the other order
AddRaisesLengthFirst(vectors, metas) ==
  IF LenBad(vectors, metas) THEN "ValueError:length"
  ELSE IF DimBad(vectors) THEN "ValueError:dimension"
  ELSE "ok"

AddRaises(vectors, metas) ==
  IF DimBad(vectors) THEN "ValueError:dimension"
  ELSE IF LenBad(vectors, metas) THEN "ValueError:length"
  ELSE "ok"

ZipPairs(rows, metas) == [i \in 1..Len(rows) |-> <<rows[i], metas[i]>>]

\* lines 74-87: the two checks, then self.index.add(vectors)
AddCall(vectors, metas) ==
  /\ Idle("add")
  /\ LET r == AddRaises(vectors, metas) IN
       IF r # "ok"
       THEN /\ ret' = [op |-> "add", res |-> r,
                       rowBad |-> SomeRowNotDim(vectors),
                       shaped |-> ~DimBad(vectors),
                       countBad |-> vectors.n # Len(metas)]
            /\ UNCHANGED <<cls, index, metadata, pc, addLocal, added>>
       ELSE /\ index' = index \o vectors.rows
            /\ added' = added \o ZipPairs(vectors.rows, metas)
            /\ addLocal' = [metas |-> metas]
            /\ pc' = [pc EXCEPT !["add"] = "extend"]
            /\ ret' = NoRet
            /\ UNCHANGED metadata
  /\ UNCHANGED <<cls, disk, searchLocal, saveLocal, frame, recommend_counts>>

\* the new records put in front of the list instead of behind it
AddExtendInFront ==
  /\ pc["add"] = "extend"
  /\ metadata' = addLocal.metas \o metadata
  /\ addLocal' = NoLocal
  /\ pc' = [pc EXCEPT !["add"] = "idle"]
  /\ ret' = [op |-> "add", res |-> "ok", rowBad |-> FALSE, shaped |-> TRUE,
             countBad |-> FALSE]
  /\ UNCHANGED <<cls, index, disk, searchLocal, saveLocal, frame, added, recommend_counts>>

\* line 88: self.metadata.extend(metas)
AddExtend ==
  /\ pc["add"] = "extend"
  /\ metadata' = metadata \o addLocal.metas
  /\ addLocal' = NoLocal
  /\ pc' = [pc EXCEPT !["add"] = "idle"]
  /\ ret' = [op |-> "add", res |-> "ok", rowBad |-> FALSE, shaped |-> TRUE,
             countBad |-> FALSE]
  /\ UNCHANGED <<cls, index, disk, searchLocal, saveLocal, frame, added, recommend_counts>>

-----------------------------------------------------------------------------
(* VectorStore.search                                                      *)

RECURSIVE SumSq(_, _, _)
SumSq(a, b, i) ==
  IF i = 0 THEN 0 ELSE (a[i] - b[i]) * (a[i] - b[i]) + SumSq(a, b, i - 1)

\* the (squared) L2 distance IndexFlatL2 reports
Dist(a, b) == SumSq(a, b, Len(a))

\* the distance faiss reports beside the label -1 of an empty slot
InfDist == 1000000

Injective(f) == \A i, j \in DOMAIN f : i # j => f[i] # f[j]

\* line 112, self.index.search(vector, k): the k rows of (distances[0],
\* indices[0]); the min(k, ntotal) nearest rows by ascending distance (rows at
\* equal distance in either order), then empty slots labelled -1.
FaissSearch(rows, q, k) ==
  LET n == Len(rows)
      m == Min(k, n)
      D(j) == Dist(q, rows[j + 1])
      Orders == {o \in [1..m -> 0..(n - 1)] :
                   /\ Injective(o)
                   /\ \A i \in 1..(m - 1) : D(o[i]) <= D(o[i + 1])
                   /\ \A j \in (0..(n - 1)) \ Range(o) : m = 0 \/ D(j) >= D(o[m])}
  IN {[i \in 1..k |-> IF i <= m THEN [dist |-> D(o[i]), idx |-> o[i]]
                                 ELSE [dist |-> InfDist, idx |-> -1]] : o \in Orders}

\* the loop with each hit put in front of the list
SearchLoopBodyInFront(results, pair, metas) ==
  IF pair.idx < 0 \/ pair.idx >= Len(metas)
  THEN results
  ELSE <<[metadata |-> metas[pair.idx + 1], distance |-> pair.dist]>> \o results

\* the loop without the test idx < 0: Python reads metadata[-1], the last record
SearchLoopBodyNoSentinel(results, pair, metas) ==
  IF pair.idx >= Len(metas) \/ Len(metas) = 0
  THEN results
  ELSE Append(results,
              [metadata |-> metas[IF pair.idx < 0 THEN Len(metas) + pair.idx + 1
                                                  ELSE pair.idx + 1],
               distance |-> pair.dist])

\* lines 116-121: one turn of the loop over zip(distances[0], indices[0])
SearchLoopBody(results, pair, metas) ==
  IF pair.idx < 0 \/ pair.idx >= Len(metas)
  THEN results
  ELSE Append(results, [metadata |-> metas[pair.idx + 1], distance |-> pair.dist])

\* lines 114-123 run without interruption
RECURSIVE SearchLoopFrom(_, _, _, _)
SearchLoopFrom(results, raw, i, metas) ==
  IF i > Len(raw) THEN results
  ELSE SearchLoopFrom(SearchLoopBody(results, raw[i], metas), raw, i + 1, metas)

SearchHits(raw, metas) == SearchLoopFrom(<<>>, raw, 1, metas)

\* lines 110-112
SearchIndex(q, k) ==
  /\ Idle("search")
  /\ \E raw \in FaissSearch(index, q, k) :
       searchLocal' = [q |-> q, k |-> k, ntotal |-> Len(index), raw |-> raw,
                       i |-> 1, results |-> <<>>]
  /\ pc' = [pc EXCEPT !["search"] = "loop"]
  /\ ret' = NoRet
  /\ UNCHANGED <<cls, index, metadata, disk, addLocal, saveLocal, frame, added, recommend_counts>>

\* lines 115-121, one element of the zip
SearchLoop ==
  /\ pc["search"] = "loop"
  /\ searchLocal.i <= Len(searchLocal.raw)
  /\ searchLocal' = [searchLocal EXCEPT
                       !.results = SearchLoopBody(@, searchLocal.raw[searchLocal.i], metadata),
                       !.i = @ + 1]
  /\ UNCHANGED <<cls, index, metadata, disk, pc, addLocal, saveLocal, frame, added, ret, recommend_counts>>

\* a search that takes the records it reports out of the store
SearchReturnDrains ==
  /\ pc["search"] = "loop"
  /\ searchLocal.i > Len(searchLocal.raw)
  /\ ret' = [op |-> "search", res |-> "ok", q |-> searchLocal.q, k |-> searchLocal.k,
             ntotal |-> searchLocal.ntotal, raw |-> searchLocal.raw,
             hits |-> searchLocal.results]
  /\ metadata' = SelectSeq(metadata,
                           LAMBDA m : \A i \in DOMAIN searchLocal.results :
                                        searchLocal.results[i].metadata # m)
  /\ searchLocal' = NoLocal
  /\ pc' = [pc EXCEPT !["search"] = "idle"]
  /\ UNCHANGED <<cls, index, disk, addLocal, saveLocal, frame, added, recommend_counts>>

\* line 123
SearchReturn ==
  /\ pc["search"] = "loop"
  /\ searchLocal.i > Len(searchLocal.raw)
  /\ ret' = [op |-> "search", res |-> "ok", q |-> searchLocal.q, k |-> searchLocal.k,
             ntotal |-> searchLocal.ntotal, raw |-> searchLocal.raw,
             hits |-> searchLocal.results]
  /\ searchLocal' = NoLocal
  /\ pc' = [pc EXCEPT !["search"] = "idle"]
  /\ UNCHANGED <<cls, index, metadata, disk, addLocal, saveLocal, frame, added, recommend_counts>>

-----------------------------------------------------------------------------
(* VectorStore.save and VectorStore.load                                   *)

\* lines 147-153: faiss.write_index(self.index, index_path)
SaveIndex(ip, mp) ==
  /\ Idle("save")
  /\ disk' = [disk EXCEPT ![ip] = File(index)]
  /\ saveLocal' = [ip |-> ip, mp |-> mp, nIndex |-> Len(index)]
  /\ pc' = [pc EXCEPT !["save"] = "dump"]
  /\ ret' = NoRet
  /\ UNCHANGED <<cls, index, metadata, addLocal, searchLocal, frame, added, recommend_counts>>

\* lines 154-158: pickle.dump(self.metadata, f)
SaveMeta ==
  /\ pc["save"] = "dump"
  /\ disk' = [disk EXCEPT ![saveLocal.mp] = File(metadata)]
  /\ ret' = [op |-> "save", res |-> "ok", ip |-> saveLocal.ip, mp |-> saveLocal.mp,
             nIndex |-> saveLocal.nIndex, nMeta |-> Len(metadata)]
  /\ saveLocal' = NoLocal
  /\ pc' = [pc EXCEPT !["save"] = "idle"]
  /\ UNCHANGED <<cls, index, metadata, addLocal, searchLocal, frame, added, recommend_counts>>

\* load without the check of the metadata file
LoadRaisesIndexOnly(hasIndex, hasMeta) ==
  IF ~hasIndex THEN "FileNotFoundError:index" ELSE "ok"

\* lines 172-175: the two existence checks, in order
LoadRaises(hasIndex, hasMeta) ==
  IF ~hasIndex THEN "FileNotFoundError:index"
  ELSE IF ~hasMeta THEN "FileNotFoundError:metadata"
  ELSE "ok"

\* lines 177-183: what load hands to cls(index=..., metadata=...)
LoadedStore(indexFile, metaFile) ==
  [index |-> indexFile.data, metadata |-> metaFile.data]

NoStore == [index |-> <<>>, metadata |-> <<>>]

\* VectorStore.load, lines 169-183
Load(ip, mp) ==
  /\ Idle("load")
  /\ LET r == LoadRaises(Exists(ip), Exists(mp)) IN
       ret' = [op |-> "load", res |-> r,
               ip |-> ip, mp |-> mp,
               hasIndex |-> Exists(ip), hasMeta |-> Exists(mp),
               nIndex |-> Len(disk[ip].data), nMeta |-> Len(disk[mp].data),
               reads |-> IF r = "ok" THEN {ip, mp} ELSE {},
               store |-> IF r = "ok" THEN LoadedStore(disk[ip], disk[mp]) ELSE NoStore]
  /\ UNCHANGED <<cls, index, metadata, disk, pc, addLocal, searchLocal, saveLocal, frame, added, recommend_counts>>

-----------------------------------------------------------------------------
(* Text.  A string is modelled by its whitespace-separated words, which is *)
(* what str.split() returns; str.lower() acts word by word.                *)

\* str.lower() and str.casefold() on the words that are not lower-case already
LowerPairs ==
  {<<"Cozy", "cozy">>, <<"Mystery", "mystery">>, <<"Science", "science">>,
   <<"Fiction", "fiction">>, <<"Romance", "romance">>, <<"Fantasy", "fantasy">>,
   <<"Dune", "dune">>, <<"DUNE", "dune">>, <<"Emma", "emma">>, <<"Ash", "ash">>,
   <<"Birch", "birch">>, <<"Cedar", "cedar">>, <<"Atlas", "atlas">>,
   <<"Nadir", "nadir">>, <<"Loom", "loom">>, <<"Phantom", "phantom">>, <<"At", "at">>, <<"Dusk", "dusk">>}

LowerWord(w) ==
  IF \E p \in LowerPairs : p[1] = w
  THEN (CHOOSE p \in LowerPairs : p[1] = w)[2]
  ELSE w

Lower(words) == [i \in 1..Len(words) |-> LowerWord(words[i])]

\* the keywords that occur inside a longer lower-case word ("w in q" is a
\* substring test)
InsideTable ==
  [w \in {"rain", "darkness", "lighthouse", "pages.", "stars"} |->
     CASE w = "rain" -> {"ai"}
       [] w = "darkness" -> {"dark"}
       [] w = "lighthouse" -> {"light"}
       [] w = "pages." -> {"pages"}
       [] w = "stars" -> {"star"}]

Inside(w) == {w} \cup (IF w \in DOMAIN InsideTable THEN InsideTable[w] ELSE {})

\* kw in text, for a keyword of one or more words
KeywordIn(kw, words) ==
  \E i \in 1..Len(words) :
    /\ i + Len(kw) - 1 <= Len(words)
    /\ \A j \in 1..Len(kw) : kw[j] \in Inside(words[i + j - 1])

THEME_KEYWORDS ==
  [theme \in {"academy", "mystery", "politics", "romance", "fantasy", "sci_fi",
              "post_apoc", "found_family", "historical"} |->
     CASE theme = "academy" ->
            {<<"academ">>, <<"school">>, <<"university">>, <<"college">>,
             <<"campus">>, <<"professor">>, <<"library">>}
       [] theme = "mystery" ->
            {<<"mystery">>, <<"detective">>, <<"crime">>, <<"whodunit">>,
             <<"investigation">>}
       [] theme = "politics" ->
            {<<"political">>, <<"court">>, <<"rebellion">>, <<"kingdom">>,
             <<"power">>, <<"conspiracy">>}
       [] theme = "romance" ->
            {<<"romance">>, <<"love">>, <<"relationship">>, <<"marriage">>,
             <<"wedding">>}
       [] theme = "fantasy" ->
            {<<"magic">>, <<"fantasy">>, <<"kingdom">>, <<"wizard">>, <<"fae">>,
             <<"dragon">>}
       [] theme = "sci_fi" ->
            {<<"space">>, <<"alien">>, <<"future">>, <<"cyberpunk">>,
             <<"starship">>, <<"ai">>, <<"robot">>}
       [] theme = "post_apoc" ->
            {<<"post-apocalyptic">>, <<"apocalypse">>, <<"wasteland">>,
             <<"outbreak">>, <<"survival">>}
       [] theme = "found_family" ->
            {<<"found", "family">>, <<"ragtag">>, <<"band", "of", "misfits">>,
             <<"crew">>}
       [] theme = "historical" ->
            {<<"historical">>, <<"19th", "century">>, <<"victorian">>,
             <<"regency">>, <<"wwii">>}]

TONE_KEYWORDS ==
  [tone \in {"cozy", "dark", "atmospheric", "fast_paced", "slow_burn"} |->
     CASE tone = "cozy" ->
            {<<"cozy">>, <<"wholesome">>, <<"heartwarming">>, <<"comforting">>,
             <<"light">>, <<"feel-good">>}
       [] tone = "dark" ->
            {<<"dark">>, <<"gritty">>, <<"grim">>, <<"bleak">>, <<"ominous">>,
             <<"twisted">>}
       [] tone = "atmospheric" ->
            {<<"atmospheric">>, <<"moody">>, <<"haunting">>, <<"gothic">>}
       [] tone = "fast_paced" ->
            {<<"fast-paced">>, <<"page-turner">>, <<"non-stop">>, <<"action-packed">>}
       [] tone = "slow_burn" ->
            {<<"slow", "burn">>, <<"slow-burn">>, <<"gradual">>, <<"character-driven">>}]

\* any(w in text for w in words)
AnyIn(kws, words) == \E kw \in kws : KeywordIn(kw, words)

\* the number of keyword groups present in both the query and the text
SharedGroups(table, q, t) ==
  Cardinality({g \in DOMAIN table : AnyIn(table[g], q) /\ AnyIn(table[g], t)})

\* _compute_theme_score, in thirds: min(hits / 3.0, 1.0)
ThemeThirds(query, text) == Min(SharedGroups(THEME_KEYWORDS, Lower(query), Lower(text)), 3)

\* _compute_tone_alignment, in halves: min(hits / 2.0, 1.0)
ToneHalves(query, text) == Min(SharedGroups(TONE_KEYWORDS, Lower(query), Lower(text)), 2)

_is_tone_mismatch(query, text) ==
  AnyIn(TONE_KEYWORDS["cozy"], Lower(query)) /\ AnyIn(TONE_KEYWORDS["dark"], Lower(text))

-----------------------------------------------------------------------------
(* parse_filters.  The regular expressions are matched on the lower-cased  *)
(* words of the query; the words of the model contain the patterns'        *)
(* keywords only as whole words, and numbers only as whole words.          *)

\* the numerals of the model: whether \d+ matches the whole word, and the
\* value in tenths
NumberTable ==
  [w \in {"0", "300", "350", "4", "4.2"} |->
     CASE w = "0" -> [int |-> TRUE, tenths |-> 0]
       [] w = "300" -> [int |-> TRUE, tenths |-> 3000]
       [] w = "350" -> [int |-> TRUE, tenths |-> 3500]
       [] w = "4" -> [int |-> TRUE, tenths |-> 40]
       [] w = "4.2" -> [int |-> FALSE, tenths |-> 42]]

IsNumber(w) == w \in DOMAIN NumberTable

IsInt(w) == IsNumber(w) /\ NumberTable[w].int

\* int(m.group(2))
_parse_int(w) == NumberTable[w].tenths \div 10

\* float(m.group(2)), in tenths
_parse_float(w) == NumberTable[w].tenths

PhraseAt(t, i, ph) ==
  /\ i + Len(ph) - 1 <= Len(t)
  /\ \A j \in 1..Len(ph) : t[i + j - 1] = ph[j]

\* the matches of  (phrase)\s+(\d+)\s+pages  and of  <\s*(\d+)\s*pages
PagesMatches(t, phrases) ==
  {m \in [at : 1..Len(t), w : Range(t)] :
     \E ph \in phrases :
       LET n == m.at + Len(ph) IN
         /\ PhraseAt(t, m.at, ph)
         /\ n + 1 <= Len(t)
         /\ t[n] = m.w
         /\ IsInt(m.w)
         /\ "pages" \in Inside(t[n + 1])}

\* the matches of  (phrase)\s+NUMBER\s+stars?  and of  >=\s*NUMBER\s*stars?
StarsMatches(t, phrases) ==
  {m \in [at : 1..Len(t), w : Range(t)] :
     \E ph \in phrases :
       LET n == m.at + Len(ph) IN
         /\ PhraseAt(t, m.at, ph)
         /\ n + 1 <= Len(t)
         /\ t[n] = m.w
         /\ IsNumber(m.w)
         /\ "star" \in Inside(t[n + 1])}

\* the matches of  rating\s+(phrase)\s+NUMBER
RatingMatches(t, phrases) ==
  {m \in [at : 1..Len(t), w : Range(t)] :
     \E ph \in phrases :
       LET n == m.at + 1 + Len(ph) IN
         /\ t[m.at] = "rating"
         /\ PhraseAt(t, m.at + 1, ph)
         /\ n <= Len(t)
         /\ t[n] = m.w
         /\ IsNumber(m.w)}

\* re.search returns the leftmost match
Leftmost(M) == CHOOSE m \in M : \A o \in M : m.at <= o.at

\* every pattern is tried and a later match overwrites an earlier one
parse_filters_last_wins(query) ==
  LET q == Lower(query)
      under == PagesMatches(q, {<<"under">>, <<"below">>, <<"less", "than">>})
      lt == PagesMatches(q, {<<"<">>})
      over == PagesMatches(q, {<<"over">>, <<"more", "than">>, <<"at", "least">>})
      gt == PagesMatches(q, {<<">">>})
      above == {<<"above">>, <<"over">>, <<"at", "least">>}
      stars == StarsMatches(q, above)
      rating == RatingMatches(q, above)
      ge == StarsMatches(q, {<<">=">>})
  IN [max_pages |-> IF lt # {} THEN Num(_parse_int(Leftmost(lt).w))
                    ELSE IF under # {} THEN Num(_parse_int(Leftmost(under).w))
                    ELSE None,
      min_pages |-> IF gt # {} THEN Num(_parse_int(Leftmost(gt).w))
                    ELSE IF over # {} THEN Num(_parse_int(Leftmost(over).w))
                    ELSE None,
      min_rating |-> IF ge # {} THEN Num(_parse_float(Leftmost(ge).w))
                     ELSE IF rating # {} THEN Num(_parse_float(Leftmost(rating).w))
                     ELSE IF stars # {} THEN Num(_parse_float(Leftmost(stars).w))
                     ELSE None]

parse_filters(query) ==
  LET q == Lower(query)
      under == PagesMatches(q, {<<"under">>, <<"below">>, <<"less", "than">>})
      lt == PagesMatches(q, {<<"<">>})
      over == PagesMatches(q, {<<"over">>, <<"more", "than">>, <<"at", "least">>})
      gt == PagesMatches(q, {<<">">>})
      above == {<<"above">>, <<"over">>, <<"at", "least">>}
      stars == StarsMatches(q, above)
      rating == RatingMatches(q, above)
      ge == StarsMatches(q, {<<">=">>})
  IN [max_pages |-> IF under # {} THEN Num(_parse_int(Leftmost(under).w))
                    ELSE IF lt # {} THEN Num(_parse_int(Leftmost(lt).w))
                    ELSE None,
      min_pages |-> IF over # {} THEN Num(_parse_int(Leftmost(over).w))
                    ELSE IF gt # {} THEN Num(_parse_int(Leftmost(gt).w))
                    ELSE None,
      min_rating |-> IF stars # {} THEN Num(_parse_float(Leftmost(stars).w))
                     ELSE IF rating # {} THEN Num(_parse_float(Leftmost(rating).w))
                     ELSE IF ge # {} THEN Num(_parse_float(Leftmost(ge).w))
                     ELSE None]

-----------------------------------------------------------------------------
(* The indexed catalog and the queries put to the Retriever.               *)

\* a book and the coordinate of its embedding
Item(c, meta) == [vec |-> ConstVec(Dim, c), meta |-> meta]

Twin(title, rating) ==
  Book(title, "Wood", rating, GenreStr(<<<<"Mystery">>>>), Num(250), <<"cozy", "mystery", "library">>)

\* the rows of the book file, in file order
Catalog ==
  <<Item(0, Book("Dune", "Herbert", Num(43), GenreStr(<<<<"Science", "Fiction">>>>), Num(600),
                 <<"dark", "space", "kingdom">>)),
    Item(0, Book("Emma", "Austen", NoRating, GenreStr(<<<<"Romance">>>>), NoPages,
                 <<"cozy", "love", "wedding">>)),
    Item(1, Twin("Ash", Num(49))),
    Item(1, Twin("Birch", Num(30))),
    Item(1, Twin("Cedar", Num(49))),
    Item(0, Book("Atlas", "Rand", Num(450), GenreStr(<<<<"Mystery">>>>), NoPages,
                 <<"detective", "crime">>)),
    Item(1, Book("Nadir", "Low", Num(-50), GenreStr(<<<<"Fantasy">>>>), Num(900),
                 <<"grim", "wizard">>)),
    Item(0, Book("Loom", "Weaver", Num(41), GenreList(<<<<"Fantasy">>, <<"Romance">>>>), NoPages,
                 <<"magic", "love">>)),
    Item(1, Twin("Dusk", Num(0)))>>

\* the rows that can be indexed next: the index is built in file order from
\* the rows the file has
NextRows ==
  {i \in 1..Len(Catalog) :
     \A j \in 1..Len(metadata) : \A h \in 1..Len(Catalog) :
       Catalog[h].meta = metadata[j] => h < i}

\* "" is the empty query; a query of blanks has no words but is not empty
Query(words) == [empty |-> FALSE, words |-> words]

EmptyQuery == [empty |-> TRUE, words |-> <<>>]

Queries ==
  {Query(<<"Cozy", "mystery">>),
   Query(<<"fantasy", "under", "300", "pages">>),
   Query(<<"romance", "rating", "above", "4.2">>),
   Query(<<>>),
   EmptyQuery}

-----------------------------------------------------------------------------
(* Scores are exact fractions, held as whole numbers of a unit small       *)
(* enough for every term and penalty of the two ranking formulas.          *)

RECURSIVE GCD(_, _)
GCD(a, b) == IF b = 0 THEN a ELSE GCD(b, a % b)

LCM(a, b) == (a \div GCD(a, b)) * b

RECURSIVE LCMSet(_)
LCMSet(S) == IF S = {} THEN 1 ELSE LET x == CHOOSE y \in S : TRUE IN LCM(x, LCMSet(S \ {x}))

\* q_tokens = set(query.lower().split())
QTokens(query) == Range(Lower(query))

TermDens ==
  {1 + Dist(q, v) : q \in QueryVecs, v \in VecPool(Dim)} \cup
  {Cardinality(QTokens(q.words)) + 1 : q \in Queries} \cup
  {50, 3, 2}

\* 0.01 and 1.0
Cent == 625 * LCMSet(TermDens)

ScoreOne == 100 * Cent

\* the words of genres_str.replace(",", " ").split()
RECURSIVE Flatten(_)
Flatten(labels) == IF labels = <<>> THEN <<>> ELSE Head(labels) \o Flatten(Tail(labels))

\* line 213: meta.get("rating", 0) or 0, in tenths
RatingOf(meta) == IF meta.rating.kind = "num" THEN meta.rating.v ELSE 0

\* line 249: meta.get("num_pages") or meta.get("pages") or None
PagesOf(meta) == IF meta.pages.kind = "num" /\ meta.pages.v # 0 THEN meta.pages ELSE None

\* the penalties of lines 256-271 for the constraints filters of the query
Penalties(filters, score, query, meta) ==
  LET rating == RatingOf(meta)
      pages == PagesOf(meta)
      s1 == IF filters.min_rating # None /\ rating # 0 /\ rating < filters.min_rating.v
            THEN (score \div 5) * 3 ELSE score
      s2 == IF filters.max_pages # None /\ pages # None /\ pages.v > filters.max_pages.v
            THEN (s1 \div 5) * 3 ELSE s1
      s3 == IF filters.min_pages # None /\ pages # None /\ pages.v < filters.min_pages.v
            THEN (s2 \div 5) * 3 ELSE s2
  IN IF _is_tone_mismatch(query, meta.text) THEN (s3 \div 5) * 4 ELSE s3

\* lines 206 and 256-271: the constraints are parsed once per call
Penalised(score, query, meta) == Penalties(parse_filters(query), score, query, meta)

\* the five signals weighted alike
BaseScoreEvenWeights(query, meta, distance) ==
  LET similarity == Cent \div (1 + distance)
      rating_norm == (Cent \div 50) * RatingOf(meta)
      genre_tokens == Range(Lower(Flatten(meta.genres.labels)))
      overlap == Cardinality(QTokens(query) \cap genre_tokens)
      overlap_norm == (Cent \div (Cardinality(QTokens(query)) + 1)) * overlap
      theme_norm == (Cent \div 3) * ThemeThirds(query, meta.text)
      tone_align == (Cent \div 2) * ToneHalves(query, meta.text)
  IN 20 * similarity + 20 * rating_norm + 20 * overlap_norm + 20 * theme_norm
       + 20 * tone_align

\* lines 209-242: the weighted sum
BaseScore(query, meta, distance) ==
  LET similarity == Cent \div (1 + distance)
      rating_norm == (Cent \div 50) * RatingOf(meta)
      genre_tokens == Range(Lower(Flatten(meta.genres.labels)))
      overlap == Cardinality(QTokens(query) \cap genre_tokens)
      overlap_norm == (Cent \div (Cardinality(QTokens(query)) + 1)) * overlap
      theme_norm == (Cent \div 3) * ThemeThirds(query, meta.text)
      tone_align == (Cent \div 2) * ToneHalves(query, meta.text)
  IN 60 * similarity + 15 * rating_norm + 10 * overlap_norm + 10 * theme_norm
       + 5 * tone_align

\* one entry of reranked (lines 273-278)
Scored(query, r) ==
  [metadata |-> r.metadata,
   distance |-> r.distance,
   similarity |-> ScoreOne \div (1 + r.distance),
   score |-> Penalised(BaseScore(query, r.metadata, r.distance), query, r.metadata)]

\* list.sort(key=score, reverse=True) as the order it puts positions 1..n in:
\* a stable sort, so an entry goes behind the earlier entries that score as much
RECURSIVE SortDescTiesReversed(_, _)
SortDescTiesReversed(key, n) ==
  IF n = 0 THEN <<>>
  ELSE LET p == SortDescTiesReversed(key, n - 1)
           c == Cardinality({j \in 1..(n - 1) : key[j] > key[n]})
       IN SubSeq(p, 1, c) \o <<n>> \o SubSeq(p, c + 1, n - 1)

RECURSIVE SortDesc(_, _)
SortDesc(key, n) ==
  IF n = 0 THEN <<>>
  ELSE LET p == SortDesc(key, n - 1)
           c == Cardinality({j \in 1..(n - 1) : key[j] >= key[n]})
       IN SubSeq(p, 1, c) \o <<n>> \o SubSeq(p, c + 1, n - 1)

\* line 217: a genres value that is a list has no lower()
RerankRaises(results) ==
  IF \E i \in 1..Len(results) : results[i].metadata.genres.kind = "list"
  THEN "AttributeError" ELSE "ok"

\* rerank_results (lines 189-284): the entries and the order they come out in
RerankOrder(query, results) ==
  LET scored == [i \in 1..Len(results) |-> Scored(query, results[i])]
  IN SortDesc([i \in 1..Len(results) |-> scored[i].score], Len(results))

\* a record that misses a numeric constraint of the query (lines 256-271)
MissesFilter(query, meta) ==
  Penalised(ScoreOne, query, [meta EXCEPT !.text = <<>>]) # ScoreOne

\* candidates that miss a constraint are dropped instead of marked down
rerank_results_hard_filter(query, results) ==
  LET kept == SelectSeq(results, LAMBDA r : ~MissesFilter(query, r.metadata))
      perm == RerankOrder(query, kept)
  IN [i \in 1..Len(kept) |-> Scored(query, kept[perm[i]])]

rerank_results(query, results) ==
  LET perm == RerankOrder(query, results)
  IN [i \in 1..Len(results) |-> Scored(query, results[perm[i]])]

\* the embedding of a query; a stand-in for the sentence-transformer, which
\* is a fixed function of the text
Embed(query) ==
  ConstVec(Dim, CASE query.words = <<"Cozy", "mystery">> -> 1
                  [] query.words = <<"romance", "rating", "above", "4.2">> -> 2
                  [] OTHER -> 0)

\* Retriever.retrieve, line 113: embed_query indexes row 0 of the array
\* encode returns, and encode("") returns an array with no rows
RetrieveEmbed(query, k, rerank) ==
  /\ Idle("retrieve")
  /\ IF query.empty
     THEN /\ ret' = [op |-> "retrieve", res |-> "IndexError", query |-> query, k |-> k,
                     rerank |-> rerank, searched |-> FALSE, hits |-> <<>>,
                     perm |-> <<>>, out |-> <<>>]
          /\ UNCHANGED <<pc, frame>>
     ELSE /\ frame' = [frame EXCEPT !["retrieve"] =
                         [query |-> query, k |-> k, rerank |-> rerank,
                          q_vec |-> Embed(query), results |-> <<>>]]
          /\ pc' = [pc EXCEPT !["retrieve"] = "search"]
          /\ ret' = NoRet
  /\ UNCHANGED <<cls, index, metadata, disk, addLocal, searchLocal, saveLocal, added, recommend_counts>>

\* line 116: results = self.vector_store.search(q_vec, k)
RetrieveSearch ==
  /\ pc["retrieve"] = "search"
  /\ \E raw \in FaissSearch(index, frame["retrieve"].q_vec, frame["retrieve"].k) :
       frame' = [frame EXCEPT !["retrieve"].results = SearchHits(raw, metadata)]
  /\ pc' = [pc EXCEPT !["retrieve"] = "rerank"]
  /\ UNCHANGED <<cls, index, metadata, disk, addLocal, searchLocal, saveLocal, added, ret, recommend_counts>>

\* lines 119-122
RetrieveReturn ==
  /\ pc["retrieve"] = "rerank"
  /\ LET f == frame["retrieve"]
         r == IF f.rerank THEN RerankRaises(f.results) ELSE "ok"
     IN ret' = [op |-> "retrieve", res |-> r, query |-> f.query, k |-> f.k,
                rerank |-> f.rerank, searched |-> TRUE, hits |-> f.results,
                perm |-> IF f.rerank /\ r = "ok"
                         THEN RerankOrder(f.query.words, f.results)
                         ELSE [i \in 1..Len(f.results) |-> i],
                out |-> IF ~f.rerank THEN f.results
                        ELSE IF r = "ok" THEN rerank_results(f.query.words, f.results)
                        ELSE <<>>]
  /\ pc' = [pc EXCEPT !["retrieve"] = "idle"]
  /\ frame' = [frame EXCEPT !["retrieve"] = NoLocal]
  /\ UNCHANGED <<cls, index, metadata, disk, addLocal, searchLocal, saveLocal, added, recommend_counts>>

-----------------------------------------------------------------------------
(* RAGGenerator.generate and RAGPipeline.run.  A title is one word; the    *)
(* text of an LLM answer is modelled by the titles it names.               *)

\* _normalize_title: casefold, and collapse blanks (a title has none here)
NormalizeTitle(t) == LowerWord(t)

\* format_docs_for_llm, max_docs
MaxDocs == 5

\* the style directive generate adds to the system prompt (lines 119-125)
StyleDirective(style) ==
  CASE style \in {"short", "concise"} -> "very short"
    [] style = "detailed" -> "more detailed"
    [] OTHER -> "none"

\* what the Ollama backend can do with a prompt about these books: fail, give
\* nothing usable, or answer naming titles, listed or invented
LLMOutcomes(context) ==
  {[kind |-> "error", names |-> <<>>], [kind |-> "blank", names |-> <<>>]} \cup
  {[kind |-> "text", names |-> n] :
     n \in {<<>>, <<"Phantom">>} \cup
           (IF context = <<>> THEN {} ELSE {<<context[1].title, "Phantom">>})}

\* line 191: "books": []
GeneratedBooksAsNamed(names) == [i \in 1..Len(names) |-> [title |-> names[i]]]

GeneratedBooks(names) == <<>>

\* self.ollama.generate (generator_ollama.py 86-114) for a backend that does
\* the same at every attempt: a failure and an empty response come back as
\* one of the two fixed messages, which name no title
OllamaReply(outcome) ==
  IF outcome.kind \in {"error", "blank"} THEN [kind |-> "text", names |-> <<>>]
  ELSE outcome

\* generate (lines 66-193) for what self.ollama.generate does
Generate(style, context, outcome) ==
  CASE outcome.kind = "error" -> [res |-> "LLMTimeoutError"]
    [] outcome.kind = "blank" -> [res |-> "LLMResponseFormatError"]
    [] OTHER -> [res |-> "ok",
                 answer |-> [names |-> outcome.names],
                 books |-> GeneratedBooks(outcome.names),
                 directive |-> StyleDirective(style),
                 listed |-> context]

\* lines 177-194: the RetrievedDoc of one raw doc
RetrievedDoc(d) ==
  [title |-> d.metadata.title,
   author |-> d.metadata.author,
   genres |-> d.metadata.genres.labels,
   rating |-> RatingOf(d.metadata),
   similarity |-> d.similarity,
   retrieval_text |-> d.metadata.text]

\* line 182: a genres value that is a list has no split()
ToDocsRaises(raw_docs) ==
  IF \E i \in 1..Len(raw_docs) : raw_docs[i].metadata.genres.kind = "list"
  THEN "AttributeError" ELSE "ok"

\* _normalize_rating, in units of Cent \div 50
_normalize_rating(rating) == Max(0, Min(rating, 50))

\* _estimate_genre_overlap: genre labels are compared whole
GenreOverlap(query, doc) ==
  LET q_tokens == QTokens(query)
      genre_tokens == {Lower(doc.genres[i]) : i \in 1..Len(doc.genres)}
      overlap == Cardinality({w \in q_tokens : <<w>> \in genre_tokens})
  IN Min(ScoreOne, (ScoreOne \div (Cardinality(q_tokens) + 1)) * overlap)

\* rerank_docs, lines 96-117
DocScores(query, doc) ==
  LET sim == doc.similarity
      rating_norm == (ScoreOne \div 50) * _normalize_rating(doc.rating)
      genre_overlap == GenreOverlap(query, doc)
  IN [similarity |-> sim, rating_norm |-> rating_norm, genre_overlap |-> genre_overlap,
      final_score |-> 60 * (sim \div 100) + 20 * (rating_norm \div 100)
                        + 20 * (genre_overlap \div 100)]

rerank_docs(query, docs) ==
  LET items == [i \in 1..Len(docs) |-> [doc |-> docs[i], scores |-> DocScores(query, docs[i])]]
      perm == SortDesc([i \in 1..Len(docs) |-> items[i].scores.final_score], Len(docs))
  IN [i \in 1..Len(docs) |-> items[perm[i]]]

\* format_docs_for_llm, max_text_chars
MaxTextChars == 400

\* len(w) for the words of the descriptions; "{250}" and "{450}" stand for
\* runs of 250 and 450 characters with no blank in them
WordChars(w) ==
  CASE w \in {"cozy", "dark", "love", "grim"} -> 4
    [] w \in {"space", "crime", "magic"} -> 5
    [] w = "wizard" -> 6
    [] w \in {"mystery", "library", "kingdom", "wedding"} -> 7
    [] w = "detective" -> 9
    [] w = "{250}" -> 250
    [] w = "{450}" -> 450

\* len() of the first i words joined by single blanks
RECURSIVE JoinedChars(_, _)
JoinedChars(words, i) ==
  IF i = 0 THEN 0
  ELSE JoinedChars(words, i - 1) + WordChars(words[i]) + (IF i = 1 THEN 0 ELSE 1)

\* lines 30-32: the text as it is when short; else its first max_text_chars
\* characters up to the last blank among them, followed by "...".  words are
\* the words kept, clipped tells that the last of them lost its end.
Snippet(text) ==
  LET n == Len(text)
      kept == {i \in 1..(n - 1) : JoinedChars(text, i) + 1 <= MaxTextChars}
      last == IF kept = {} THEN 0 ELSE CHOOSE i \in kept : \A j \in kept : j <= i
  IN IF JoinedChars(text, n) <= MaxTextChars
     THEN [words |-> text, clipped |-> FALSE, ellipsis |-> FALSE,
           chars |-> JoinedChars(text, n)]
     ELSE IF kept = {}
     THEN [words |-> <<text[1]>>, clipped |-> TRUE, ellipsis |-> TRUE,
           chars |-> MaxTextChars + 3]
     ELSE [words |-> SubSeq(text, 1, last), clipped |-> FALSE, ellipsis |-> TRUE,
           chars |-> JoinedChars(text, last) + 3]

\* the blocks with the similarity of the doc printed in them
format_docs_for_llm_with_similarity(docs) ==
  [i \in 1..Min(Len(docs), MaxDocs) |->
     [title |-> docs[i].title,
      author |-> docs[i].author,
      genres |-> IF docs[i].genres = <<>> THEN <<<<"Unknown">>>> ELSE docs[i].genres,
      rating |-> docs[i].rating * 10,
      similarity |-> docs[i].similarity,
      description |-> Snippet(docs[i].retrieval_text)]]

\* format_docs_for_llm: one block per doc, ratings printed with two decimals
format_docs_for_llm(docs) ==
  [i \in 1..Min(Len(docs), MaxDocs) |->
     [title |-> docs[i].title,
      author |-> docs[i].author,
      genres |-> IF docs[i].genres = <<>> THEN <<<<"Unknown">>>> ELSE docs[i].genres,
      rating |-> docs[i].rating * 10,
      description |-> Snippet(docs[i].retrieval_text)]]

\* lines 199-201 of run on their own: reranked[:n_recs] and the context
ContextBuild ==
  /\ pc["context"] = "called"
  /\ LET f == frame["context"]
         top_docs == [i \in 1..Min(Len(f.reranked), f.n_recs) |-> f.reranked[i]]
     IN frame' = [frame EXCEPT !["context"] =
                    [query |-> f.query, top_docs |-> top_docs,
                     context |-> format_docs_for_llm(top_docs)]]
  /\ pc' = [pc EXCEPT !["context"] = "generate"]
  /\ UNCHANGED <<cls, index, metadata, disk, addLocal, searchLocal, saveLocal,
                 recommend_counts, added, ret>>

\* lines 204-220 of run and 100-180 of generate: extra is built and handed
\* over, the prompts are put together and passed to self.ollama.generate
ContextSend ==
  /\ pc["context"] = "generate"
  /\ LET f == frame["context"]
     IN ret' = [op |-> "context", res |-> "ok", top_docs |-> f.top_docs,
                extra |-> [retrieved_books |->
                             [i \in DOMAIN f.top_docs |->
                                [title |-> f.top_docs[i].title,
                                 author |-> f.top_docs[i].author,
                                 genres |-> f.top_docs[i].genres,
                                 rating |-> f.top_docs[i].rating]]],
                prompt |-> [system |-> StyleDirective("none"),
                            user |-> [history |-> <<>>, query |-> f.query,
                                      context |-> f.context]]]
  /\ frame' = [frame EXCEPT !["context"] = NoLocal]
  /\ pc' = [pc EXCEPT !["context"] = "idle"]
  /\ UNCHANGED <<cls, index, metadata, disk, addLocal, searchLocal, saveLocal,
                 recommend_counts, added>>

NoResult == [query |-> EmptyQuery]

\* line 155 is about to run
RunCall(query, top_k, n_recs, style) ==
  /\ Idle("run")
  /\ frame' = [frame EXCEPT !["run"] =
                 [query |-> query, top_k |-> top_k, n_recs |-> n_recs, style |-> style,
                  raw_docs |-> <<>>, reranked |-> <<>>, context |-> <<>>]]
  /\ pc' = [pc EXCEPT !["run"] = "retrieve"]
  /\ ret' = NoRet
  /\ UNCHANGED <<cls, index, metadata, disk, addLocal, searchLocal, saveLocal, added, recommend_counts>>

\* line 155: raw_docs = self.retriever.retrieve(query, k=top_k)
RunRetrieve ==
  /\ pc["run"] = "retrieve"
  /\ ret = NoRet
  /\ RetrieveEmbed(frame["run"].query, frame["run"].top_k, TRUE)

\* lines 158-201: retrieve has returned or raised
RunRerank ==
  /\ pc["run"] = "retrieve"
  /\ ret.op = "retrieve"
  /\ LET f == frame["run"]
         r == IF ret.res # "ok" THEN ret.res ELSE ToDocsRaises(ret.out)
         docs == [i \in 1..Len(ret.out) |-> RetrievedDoc(ret.out[i])]
         reranked == rerank_docs(f.query.words, docs)
         \* line 200: reranked[:n_recs]
         top_docs == [i \in 1..Min(Len(reranked), f.n_recs) |-> reranked[i].doc]
     IN IF r # "ok"
        THEN /\ ret' = [op |-> "run", res |-> r, query |-> f.query, result |-> NoResult,
                         calls |-> [retriever |-> 1, generator |-> 0]]
             /\ pc' = [pc EXCEPT !["run"] = "idle"]
             /\ frame' = [frame EXCEPT !["run"] = NoLocal]
        ELSE /\ frame' = [frame EXCEPT !["run"].raw_docs = ret.out,
                                       !["run"].reranked = reranked,
                                       !["run"].context = format_docs_for_llm(top_docs)]
             /\ pc' = [pc EXCEPT !["run"] = "generate"]
             /\ ret' = NoRet
  /\ UNCHANGED <<cls, index, metadata, disk, addLocal, searchLocal, saveLocal, added, recommend_counts>>

\* lines 165-172 and 223-245: the result dict
RunResult(query, raw_docs, reranked, context, gen_output) ==
  [query |-> query,
   retrieved |->
     [i \in 1..Len(reranked) |->
        [title |-> reranked[i].doc.title,
         author |-> reranked[i].doc.author,
         genres |-> reranked[i].doc.genres,
         rating |-> reranked[i].doc.rating,
         similarity |-> reranked[i].scores.similarity,
         genre_overlap |-> reranked[i].scores.genre_overlap,
         final_score |-> reranked[i].scores.final_score]],
   context |-> context,
   answer |-> gen_output.answer,
   recommended_books |-> gen_output.books,
   meta |-> IF raw_docs = <<>>
            THEN [reason |-> "no_retrieved_docs"]
            ELSE [num_retrieved |-> Len(raw_docs),
                  num_recommended |-> Len(gen_output.books)]]

\* lines 159-173 and 204-247: the generator call and the result
RunGenerate ==
  /\ pc["run"] = "generate"
  /\ \E outcome \in LLMOutcomes(frame["run"].context) :
       LET f == frame["run"]
           gen_output == Generate(f.style, f.context, OllamaReply(outcome))
       IN ret' = IF gen_output.res # "ok"
                 THEN [op |-> "run", res |-> gen_output.res, query |-> f.query,
                       result |-> NoResult,
                       calls |-> [retriever |-> 1, generator |-> 1]]
                 ELSE [op |-> "run", res |-> "ok", query |-> f.query,
                       result |-> RunResult(f.query, f.raw_docs, f.reranked, f.context,
                                            gen_output),
                       prompt |-> [directive |-> gen_output.directive,
                                   listed |-> gen_output.listed],
                       calls |-> [retriever |-> 1, generator |-> 1]]
  /\ pc' = [pc EXCEPT !["run"] = "idle"]
  /\ frame' = [frame EXCEPT !["run"] = NoLocal]
  /\ UNCHANGED <<cls, index, metadata, disk, addLocal, searchLocal, saveLocal, added, recommend_counts>>

-----------------------------------------------------------------------------
(* Generator.generate of generator_ollama.py, and RAGGenerator.generate on *)
(* top of it.  A text is its words and whether blanks surround them; waits *)
(* are in tenths of a second.                                              *)

Text(words, padded) == [words |-> words, padded |-> padded]

\* str.strip()
Strip(text) == Text(text.words, FALSE)

\* what ollama.chat does in one attempt: raise, or answer with a content that
\* is missing, empty, blank, or a text
Raised == [kind |-> "raise", content |-> Text(<<>>, FALSE)]

Reply(content) == [kind |-> "reply", content |-> content]

ChatOutcomes ==
  {Raised} \cup
  {Reply(Text(w, p)) : w \in {<<>>, <<"Try", "Dune">>}, p \in BOOLEAN}

\* the two fixed messages of lines 100-103 and 111-114
ApologyMessage == Text(<<"I", "couldn't", "generate", "a", "response">>, FALSE)

TroubleMessage == Text(<<"I'm", "having", "trouble", "generating", "an", "answer">>, FALSE)

\* OllamaConfig defaults (lines 19-20), the backoff in tenths of a second
DefaultRetries == 1

DefaultBackoff == 7

\* line 108 sleeps the same time before every retry
BackoffWaitConstant(retry_backoff_s, attempt) == retry_backoff_s

\* line 108: retry_backoff_s * (attempt + 1)
BackoffWait(retry_backoff_s, attempt) == retry_backoff_s * (attempt + 1)

\* where the string Generator.generate returns goes: to the caller of a
\* direct call, or into raw_text of the RAGGenerator.generate that called
GeneratorReturn(f, out, calls, log) ==
  IF f.caller = "direct"
  THEN /\ ret' = [op |-> "ollama", res |-> "ok", out |-> out, retries |-> f.retries,
                  retry_backoff_s |-> f.retry_backoff_s, calls |-> calls,
                  slept |-> f.slept, log |-> log]
       /\ frame' = [frame EXCEPT !["ollama"] = NoLocal]
       /\ pc' = [pc EXCEPT !["ollama"] = "idle"]
  ELSE /\ frame' = [frame EXCEPT !["ollama"] = NoLocal,
                                 !["generate"].raw_text = out,
                                 !["generate"].calls = calls,
                                 !["generate"].log = log]
       /\ pc' = [pc EXCEPT !["ollama"] = "idle", !["generate"] = "check"]
       /\ UNCHANGED ret

\* a direct call of Generator.generate with a config of its own (lines
\* 66-84); with retries < 0 the loop has no pass and line 111 returns at once
GeneratorCall(retries, retry_backoff_s) ==
  /\ pc["ollama"] = "idle"
  /\ LET f == [retries |-> retries, retry_backoff_s |-> retry_backoff_s, attempt |-> 0,
               calls |-> 0, slept |-> <<>>, log |-> <<>>, caller |-> "direct"]
     IN IF retries < 0
        THEN /\ ret' = [op |-> "ollama", res |-> "ok", out |-> TroubleMessage,
                        retries |-> retries, retry_backoff_s |-> retry_backoff_s,
                        calls |-> 0, slept |-> <<>>, log |-> <<>>]
             /\ UNCHANGED <<frame, pc>>
        ELSE /\ frame' = [frame EXCEPT !["ollama"] = f]
             /\ pc' = [pc EXCEPT !["ollama"] = "attempt"]
             /\ ret' = NoRet
  /\ UNCHANGED <<cls, index, metadata, disk, addLocal, searchLocal, saveLocal,
                 recommend_counts, added>>

\* one pass of the loop of lines 86-109: the chat call, and then the return
\* of lines 95-105, or the handler of lines 106-109 and, after the last
\* attempt, the return of line 111
GeneratorAttempt ==
  /\ pc["ollama"] = "attempt"
  /\ \E chat \in ChatOutcomes :
       LET f == frame["ollama"]
           calls == f.calls + 1
           log == Append(f.log, chat)
       IN IF chat.kind = "reply"
          THEN GeneratorReturn(f, IF Strip(chat.content).words = <<>>
                                  THEN ApologyMessage ELSE Strip(chat.content),
                               calls, log)
          ELSE IF f.attempt < f.retries
               THEN /\ frame' = [frame EXCEPT !["ollama"] =
                                   [f EXCEPT !.attempt = f.attempt + 1,
                                             !.calls = calls,
                                             !.log = log,
                                             !.slept = Append(f.slept,
                                                BackoffWait(f.retry_backoff_s, f.attempt))]]
                    /\ UNCHANGED <<pc, ret>>
               ELSE GeneratorReturn(f, TroubleMessage, calls, log)
  /\ UNCHANGED <<cls, index, metadata, disk, addLocal, searchLocal, saveLocal,
                 recommend_counts, added>>

\* RAGGenerator.generate up to line 176: the prompts are built and
\* self.ollama.generate, a Generator with the default config, is called
RagGenerateCall(style) ==
  /\ pc["generate"] = "idle"
  /\ pc["ollama"] = "idle"
  /\ frame' = [frame EXCEPT
                 !["generate"] = [style |-> style, raw_text |-> Text(<<>>, FALSE),
                                  calls |-> 0, log |-> <<>>],
                 !["ollama"] = [retries |-> DefaultRetries,
                                retry_backoff_s |-> DefaultBackoff, attempt |-> 0,
                                calls |-> 0, slept |-> <<>>, log |-> <<>>,
                                caller |-> "generate"]]
  /\ pc' = [pc EXCEPT !["generate"] = "ollama", !["ollama"] = "attempt"]
  /\ ret' = NoRet
  /\ UNCHANGED <<cls, index, metadata, disk, addLocal, searchLocal, saveLocal,
                 recommend_counts, added>>

\* lines 184-193 for the string self.ollama.generate returned
RagGenerateReturn ==
  /\ pc["generate"] = "check"
  /\ LET f == frame["generate"]
         out == Generate(f.style, <<>>,
                         [kind |-> IF Strip(f.raw_text).words = <<>> THEN "blank" ELSE "text",
                          names |-> Strip(f.raw_text).words])
     IN ret' = [op |-> "generate", res |-> out.res, style |-> f.style,
                answer |-> IF out.res = "ok" THEN out.answer.names ELSE <<>>,
                raw_model_output |-> f.raw_text, calls |-> f.calls, log |-> f.log]
  /\ frame' = [frame EXCEPT !["generate"] = NoLocal]
  /\ pc' = [pc EXCEPT !["generate"] = "idle"]
  /\ UNCHANGED <<cls, index, metadata, disk, addLocal, searchLocal, saveLocal,
                 recommend_counts, added>>

-----------------------------------------------------------------------------
(* BookRecommendationService.recommend.  The calls it makes are folded     *)
(* into one step: each is given as the result it has for the rows faiss    *)
(* names and for what the backend does.                                    *)

\* the keyword parameters run declares (rag_pipeline.py) and the keywords
\* recommend passes to it
RunParams == {"query", "top_k", "n_recs", "style", "debug"}

RecommendKwargs == {"query", "style", "history", "mood", "explain", "second_opinion"}

\* calling a function with a keyword it does not declare
BindRaises(kwargs, params) == IF kwargs \subseteq params THEN "ok" ELSE "TypeError"

\* run's defaults for top_k and n_recs, and _safe_retrieval's top_k
DefaultTopK == 10

DefaultNRecs == 3

FallbackTopK == 5

\* Retriever.retrieve(query, k, rerank=True) for the rows raw that faiss names
RetrieveOutcome(query, raw) ==
  IF query.empty THEN [res |-> "IndexError", out |-> <<>>]
  ELSE LET results == SearchHits(raw, metadata)
           r == RerankRaises(results)
       IN [res |-> r, out |-> IF r = "ok" THEN rerank_results(query.words, results) ELSE <<>>]

\* lines 197-201 of run: the context of the prompt is made of the first n_recs
RunRanked(reranked, n_recs) ==
  [reranked |-> reranked,
   context |-> format_docs_for_llm(
                 [i \in 1..Min(Len(reranked), n_recs) |-> reranked[i].doc])]

\* lines 175-201 of run: the reranked docs and the context of the prompt
RunDocs(query, n_recs, raw_docs) ==
  RunRanked(rerank_docs(query.words,
                        [i \in 1..Len(raw_docs) |-> RetrievedDoc(raw_docs[i])]),
            n_recs)

\* the context a run that retrieved got reaches the generator with; nothing
\* if it raises before
ContextOf(query, n_recs, got) ==
  IF got.res = "ok" /\ ToDocsRaises(got.out) = "ok"
  THEN RunDocs(query, n_recs, got.out).context ELSE <<>>

RunContext(query, n_recs, raw) == ContextOf(query, n_recs, RetrieveOutcome(query, raw))

\* lines 204-247 of run for the generator's outcome gen_output
RunGenerated(query, out, d, gen_output) ==
  IF gen_output.res # "ok" THEN [res |-> gen_output.res, result |-> NoResult]
  ELSE [res |-> "ok",
        result |-> RunResult(query, out, d.reranked, d.context, gen_output)]

\* lines 175-247 of run for the docs out of the retriever
RunDocsOutcome(query, style, out, d, outcome) ==
  RunGenerated(query, out, d, Generate(style, d.context, OllamaReply(outcome)))

\* lines 155-247 of run once the retriever has returned or raised got
RunRetrieved(query, n_recs, style, got, outcome) ==
  IF got.res # "ok" THEN [res |-> got.res, result |-> NoResult]
  ELSE IF ToDocsRaises(got.out) # "ok"
       THEN [res |-> ToDocsRaises(got.out), result |-> NoResult]
       ELSE RunDocsOutcome(query, style, got.out, RunDocs(query, n_recs, got.out), outcome)

\* RAGPipeline.run(query, n_recs=n_recs, style=style) as one result
RunOutcome(query, n_recs, style, raw, outcome) ==
  RunRetrieved(query, n_recs, style, RetrieveOutcome(query, raw), outcome)

\* lines 93-107 of _safe_retrieval: the books of a fallback answer
FallbackBooks(out) ==
  [i \in 1..Len(out) |->
     [Title |-> IF out[i].metadata.title = "" THEN "Unknown title"
                ELSE out[i].metadata.title,
      Author |-> IF out[i].metadata.author = "" THEN "Unknown author"
                 ELSE out[i].metadata.author,
      genres |-> out[i].metadata.genres,
      average_rating |-> RatingOf(out[i].metadata),
      score |-> out[i].score]]

\* lines 87-92 of _safe_retrieval: any exception of retrieve gives []
SafeBooks(got) == IF got.res # "ok" THEN <<>> ELSE FallbackBooks(got.out)

\* _safe_retrieval (lines 82-107)
_safe_retrieval(query, raw) == SafeBooks(RetrieveOutcome(query, raw))

\* str.strip() of a title: a title is one word, or nothing but a blank
StripTitle(title) == IF title = " " THEN "" ELSE title

\* _extract_title (lines 68-80)
_extract_title(book) ==
  StripTitle(IF "title" \in DOMAIN book /\ book.title # "" THEN book.title
             ELSE IF "Title" \in DOMAIN book THEN book.Title
             ELSE "")

\* every book counted, under whatever _extract_title gives for it
RECURSIVE _update_recommend_counts_untitled(_, _)
_update_recommend_counts_untitled(counts, books) ==
  IF books = <<>> THEN counts
  ELSE LET title == _extract_title(Head(books))
           next == IF title \in DOMAIN counts
                   THEN [counts EXCEPT ![title] = @ + 1]
                   ELSE [t \in DOMAIN counts \cup {title} |->
                           IF t = title THEN 1 ELSE counts[t]]
       IN _update_recommend_counts_untitled(next, Tail(books))

\* _update_recommend_counts (lines 109-113)
RECURSIVE _update_recommend_counts(_, _)
_update_recommend_counts(counts, books) ==
  IF books = <<>> THEN counts
  ELSE LET title == _extract_title(Head(books))
           next == IF title = "" THEN counts
                   ELSE IF title \in DOMAIN counts
                        THEN [counts EXCEPT ![title] = @ + 1]
                        ELSE [t \in DOMAIN counts \cup {title} |->
                                IF t = title THEN 1 ELSE counts[t]]
       IN _update_recommend_counts(next, Tail(books))

\* the two templated answers of lines 144-166
FallbackAnswer(error) ==
  [kind |-> "fallback",
   text |-> IF error = "LLMTimeoutError"
            THEN "showing the closest matches retrieved directly from the catalog"
            ELSE "candidate books retrieved directly from the catalog"]

LLMErrors == {"LLMTimeoutError", "LLMResponseFormatError"}

\* recommend is called (lines 117-130): the two derived arguments are bound;
\* backend is what the Ollama server does with a prompt during this call
RecommendCall(query, style, use_mood, explain, second_opinion, history, backend) ==
  /\ pc["recommend"] = "idle"
  /\ frame' = [frame EXCEPT !["recommend"] =
                 [query |-> query, style |-> style,
                  mood_override |-> IF use_mood THEN "None" ELSE "neutral",
                  style_value |-> IF style = "none" THEN "default" ELSE style,
                  explain |-> explain, second_opinion |-> second_opinion,
                  history |-> history, backend |-> backend]]
  /\ pc' = [pc EXCEPT !["recommend"] = "run"]
  /\ ret' = NoRet
  /\ UNCHANGED <<cls, index, metadata, disk, addLocal, searchLocal, saveLocal,
                 recommend_counts, added>>

\* lines 142-166: the two handlers, for what pipeline.run returned or raised
RecommendHandled(query, run, raw5) ==
  IF run.res \in LLMErrors
  THEN [res |-> "ok",
        result |-> [answer |-> FallbackAnswer(run.res),
                    retrieved_books |-> _safe_retrieval(query, raw5),
                    recommended_books |-> <<>>,
                    context |-> <<>>,
                    query |-> query]]
  ELSE run

\* what lines 132-166 give once pipeline.run has accepted its arguments
RecommendOutcome(query, style_value, raw, raw5, outcome) ==
  RecommendHandled(query, RunOutcome(query, DefaultNRecs, style_value, raw, outcome), raw5)

\* the directives a prompt carries: run hands generate the style and no
\* personality (rag_pipeline.py lines 204-220, rag_generator.py lines 119-132)
NoDirectives == [terseness |-> "none", personality |-> "none"]

Directives(style) == [terseness |-> StyleDirective(style), personality |-> "none"]

\* lines 168-172: the counts are updated and the result is returned
RecommendReturn(f, o) ==
  /\ ret' = [op |-> "recommend", res |-> o.res, query |-> f.query,
             style |-> f.style, backend |-> f.backend, result |-> o.result,
             directives |-> Directives(f.style_value),
             calls |-> [retriever |-> 1, generator |-> 1]]
  /\ recommend_counts' =
       IF o.res = "ok"
       THEN _update_recommend_counts(recommend_counts, o.result.recommended_books)
       ELSE recommend_counts

\* the rest of recommend (lines 132-172): the call of pipeline.run, the two
\* handlers, the counts and the return
RecommendRun ==
  /\ pc["recommend"] = "run"
  /\ LET f == frame["recommend"]
         bound == BindRaises(RecommendKwargs, RunParams)
     IN IF bound # "ok"
        THEN /\ ret' = [op |-> "recommend", res |-> bound, query |-> f.query,
                        style |-> f.style, backend |-> f.backend,
                        result |-> NoResult, directives |-> NoDirectives,
                        calls |-> [retriever |-> 0, generator |-> 0]]
             /\ UNCHANGED recommend_counts
        ELSE \E raw \in FaissSearch(index, Embed(f.query), DefaultTopK) :
             \E raw5 \in FaissSearch(index, Embed(f.query), FallbackTopK) :
             \E outcome \in {c \in LLMOutcomes(RunContext(f.query, DefaultNRecs, raw)) :
                                c.kind = f.backend} :
               RecommendReturn(f, RecommendOutcome(f.query, f.style_value, raw, raw5,
                                                   outcome))
  /\ frame' = [frame EXCEPT !["recommend"] = NoLocal]
  /\ pc' = [pc EXCEPT !["recommend"] = "idle"]
  /\ UNCHANGED <<cls, index, metadata, disk, addLocal, searchLocal, saveLocal, added>>

\* the recommended_books lists of the results returned so far by the calls
\* on this service
Returned == IF "returned" \in DOMAIN ret THEN ret.returned ELSE <<>>

\* lines 168-172 of recommend for the result lines 132-166 have built
RecommendTail(result) ==
  /\ Idle("recommend")
  /\ Len(Returned) < MaxCalls
  /\ recommend_counts' = _update_recommend_counts(recommend_counts, result.recommended_books)
  /\ ret' = [op |-> "recommend", res |-> "ok", result |-> result,
             returned |-> Append(Returned, result.recommended_books)]
  /\ UNCHANGED <<cls, index, metadata, disk, pc, addLocal, searchLocal, saveLocal, frame,
                 added>>

\* get_recommendation_stats (lines 176-177)
get_recommendation_stats ==
  /\ Idle("recommend")
  /\ ret.op # "stats"
  /\ ret' = [op |-> "stats", res |-> "ok", stats |-> recommend_counts,
             returned |-> Returned]
  /\ UNCHANGED <<cls, index, metadata, disk, pc, addLocal, searchLocal, saveLocal, frame,
                 added, recommend_counts>>

-----------------------------------------------------------------------------
(* BookRecommendationService.__init__.  An object is its class and the     *)
(* ordinal of its construction; a RAGPipeline also keeps the retriever and *)
(* the generator it was given.  The attributes of the class are shared by  *)
(* every caller of the constructor.                                        *)

\* the callers of BookRecommendationService()
Constructors == {"service_a", "service_b"}

Classes == {"Retriever", "RAGGenerator", "RAGPipeline"}

Object(class, id, retriever, generator) ==
  [class |-> class, id |-> id, retriever |-> retriever, generator |-> generator]

\* Python's None
NoObject == Object("None", 0, 0, 0)

\* the class body: every attribute None; built counts the constructor calls
\* of each class, instances collects the services whose __init__ returned
NoSingletons ==
  [_retriever |-> NoObject, _vector_store |-> NoObject, _generator |-> NoObject,
   _pipeline |-> NoObject, built |-> [c \in Classes |-> 0], instances |-> {}]

\* self before __init__ has set anything
NoSelf ==
  [retriever |-> NoObject, vector_store |-> NoObject, generator |-> NoObject,
   pipeline |-> NoObject]

\* r.vector_store of the Retriever r
_detect_vector_store(r) == Object("VectorStore", r.id, 0, 0)

ConstructStep(t, here, there) ==
  /\ pc[t] = here
  /\ pc' = [pc EXCEPT ![t] = there]
  /\ UNCHANGED <<index, metadata, disk, addLocal, searchLocal, saveLocal, added,
                 recommend_counts>>

\* BookRecommendationService(): __init__ is entered
ConstructCall(t) ==
  /\ ConstructStep(t, "idle", "if_retriever")
  /\ frame' = [frame EXCEPT ![t] = NoSelf]
  /\ ret' = NoRet
  /\ UNCHANGED cls

\* if BookRecommendationService.<attr> is None:
ConstructTest(t, attr, here, build, read) ==
  /\ ConstructStep(t, here, IF cls[attr] = NoObject THEN build ELSE read)
  /\ UNCHANGED <<cls, frame, ret>>

\* BookRecommendationService.<attr> = <Class>(...)
ConstructBuild(t, attr, class, retriever, generator, here, read) ==
  /\ ConstructStep(t, here, read)
  /\ cls' = [cls EXCEPT ![attr] = Object(class, cls.built[class] + 1, retriever, generator),
                        !.built[class] = @ + 1]
  /\ UNCHANGED <<frame, ret>>

\* BookRecommendationService._vector_store = self._detect_vector_store(...)
ConstructDetect(t) ==
  /\ ConstructStep(t, "detect_vector_store", "read_vector_store")
  /\ cls' = [cls EXCEPT !._vector_store = _detect_vector_store(frame[t].retriever)]
  /\ UNCHANGED <<frame, ret>>

\* self.<field> = BookRecommendationService.<attr>
ConstructRead(t, attr, field, here, there) ==
  /\ ConstructStep(t, here, there)
  /\ frame' = [frame EXCEPT ![t][field] = cls[attr]]
  /\ UNCHANGED <<cls, ret>>

\* self._recommend_counts = Counter(); __init__ returns
ConstructReturn(t) ==
  /\ ConstructStep(t, "counter", "idle")
  /\ cls' = [cls EXCEPT !.instances = @ \cup {frame[t]}]
  /\ ret' = [op |-> "construct", res |-> "ok", self |-> frame[t],
             _recommend_counts |-> [title \in {} |-> 0]]
  /\ UNCHANGED frame

\* the statements of __init__, in order
Construct(t) ==
  \/ ConstructCall(t)
  \/ ConstructTest(t, "_retriever", "if_retriever", "new_retriever", "read_retriever")
  \/ ConstructBuild(t, "_retriever", "Retriever", 0, 0, "new_retriever", "read_retriever")
  \/ ConstructRead(t, "_retriever", "retriever", "read_retriever", "if_vector_store")
  \/ ConstructTest(t, "_vector_store", "if_vector_store", "detect_vector_store",
                   "read_vector_store")
  \/ ConstructDetect(t)
  \/ ConstructRead(t, "_vector_store", "vector_store", "read_vector_store", "if_generator")
  \/ ConstructTest(t, "_generator", "if_generator", "new_generator", "read_generator")
  \/ ConstructBuild(t, "_generator", "RAGGenerator", 0, 0, "new_generator", "read_generator")
  \/ ConstructRead(t, "_generator", "generator", "read_generator", "if_pipeline")
  \/ ConstructTest(t, "_pipeline", "if_pipeline", "new_pipeline", "read_pipeline")
  \/ ConstructBuild(t, "_pipeline", "RAGPipeline", frame[t].retriever.id,
                    frame[t].generator.id, "new_pipeline", "read_pipeline")
  \/ ConstructRead(t, "_pipeline", "pipeline", "read_pipeline", "counter")
  \/ ConstructReturn(t)

-----------------------------------------------------------------------------
(* The store used from one thread: starts as VectorStore(dim=Dim).         *)

Init ==
  /\ index = <<>>
  /\ metadata = <<>>
  /\ disk = [p \in IndexPaths \cup MetaPaths |-> Missing]
  /\ pc = [t \in Threads |-> "idle"]
  /\ addLocal = NoLocal
  /\ searchLocal = NoLocal
  /\ saveLocal = NoLocal
  /\ frame = [t \in Framed |-> NoLocal]
  /\ recommend_counts = [t \in {} |-> 0]
  /\ added = <<>>
  /\ ret = NoRet
  /\ cls = NoSingletons

\* add, save and load called one after the other
NextStore ==
  \/ \E vs \in AddArrays, ms \in AddMetas :
       Alone("add") /\ Fits(vs, MaxItems) /\ AddCall(vs, ms)
  \/ Alone("add") /\ AddExtend
  \/ \E ip \in IndexPaths, mp \in MetaPaths : Alone("save") /\ SaveIndex(ip, mp)
  \/ Alone("save") /\ SaveMeta
  \/ \E ip \in IndexPaths, mp \in MetaPaths : Alone("load") /\ Load(ip, mp)

SpecStore == Init /\ [][NextStore]_vars

\* well-formed add calls and search calls, one after the other
NextSearch ==
  \/ \E ms \in AddMetas : \E rs \in [1..Len(ms) -> VecPool(Dim)] :
       Alone("add") /\ Fits(Array2(Dim, rs), MaxRows) /\ AddCall(Array2(Dim, rs), ms)
  \/ Alone("add") /\ AddExtend
  \/ \E q \in QueryVecs, k \in 1..MaxK : Alone("search") /\ SearchIndex(q, k)
  \/ Alone("search") /\ SearchLoop
  \/ Alone("search") /\ SearchReturn

SpecSearch == Init /\ [][NextSearch]_vars

\* add, search and save called from three threads with no coordination
NextConc ==
  \/ \E vs \in AddArrays, ms \in AddMetas :
       vs.n <= 1 /\ Len(ms) <= 1 /\ Fits(vs, MaxItems) /\ AddCall(vs, ms)
  \/ AddExtend
  \/ \E ip \in IndexPaths : SaveIndex(ip, "metadata.pkl")
  \/ SaveMeta
  \/ \E q \in QueryVecs, k \in 1..MaxK : SearchIndex(q, k)
  \/ SearchLoop
  \/ SearchReturn

SpecConc == Init /\ [][NextConc]_vars

\* the Retriever over a store built from the catalog, one call after the other
NextRetrieve ==
  \/ \E i \in NextRows :
       LET vs == Array2(Dim, <<Catalog[i].vec>>) IN
         Alone("add") /\ Fits(vs, MaxShelf) /\ AddCall(vs, <<Catalog[i].meta>>)
  \/ Alone("add") /\ AddExtend
  \/ \E query \in Queries, k \in 1..MaxK, rerank \in BOOLEAN :
       Alone("retrieve") /\ RetrieveEmbed(query, k, rerank)
  \/ Alone("retrieve") /\ RetrieveSearch
  \/ Alone("retrieve") /\ RetrieveReturn

SpecRetrieve == Init /\ [][NextRetrieve]_vars

\* the queries, cut-offs and styles the pipeline is run with
PipelineQueries ==
  {Query(<<"Cozy", "mystery">>),
   Query(<<"fantasy", "under", "300", "pages">>),
   Query(<<"self-harm", "stories">>),
   Query(<<>>),
   EmptyQuery}

Styles == {"none", "concise"}

\* pipeline runs over a store built from the catalog, one after the other
NextPipeline ==
  \/ \E i \in NextRows :
       LET vs == Array2(Dim, <<Catalog[i].vec>>) IN
         Alone("add") /\ Fits(vs, MaxShelf) /\ AddCall(vs, <<Catalog[i].meta>>)
  \/ Alone("add") /\ AddExtend
  \/ \E query \in PipelineQueries, top_k \in {1, MaxK}, n_recs \in 1..MaxRecs, style \in Styles :
       Alone("run") /\ RunCall(query, top_k, n_recs, style)
  \/ RunRetrieve
  \/ RetrieveSearch
  \/ RetrieveReturn
  \/ RunRerank
  \/ RunGenerate

SpecPipeline == Init /\ [][NextPipeline]_vars

\* clauses of a query: page phrases, rating phrases, and the empty clause
FilterClauses ==
  {<<>>,
   <<"under", "300", "pages">>, <<"under", "350", "pages">>, <<"<", "350", "pages">>,
   <<"under", "0", "pages">>,
   <<"over", "300", "pages">>, <<">", "350", "pages">>, <<"At", "least", "300", "pages.">>,
   <<"above", "4", "stars">>, <<"over", "4.2", "stars">>, <<"at", "least", "4", "star">>,
   <<"rating", "above", "4.2">>, <<">=", "4", "stars">>, <<"rated", "above", "4.2">>}

RECURSIVE Concat(_)
Concat(parts) == IF parts = <<>> THEN <<>> ELSE Head(parts) \o Concat(Tail(parts))

\* an absent query (None), which  query or ""  reads as the empty string
NoneQuery == [empty |-> TRUE, words |-> <<>>, absent |-> TRUE]

\* the arguments parse_filters is called with: None, "", and a subject
\* followed by up to MaxClauses clauses
FilterQueries ==
  {NoneQuery, EmptyQuery} \cup
  {Query(<<"mystery">> \o Concat(cs)) : cs \in SeqsUpTo(FilterClauses, MaxClauses)}

\* parse_filters has been called with one of the arguments
InitFilters ==
  /\ index = <<>>
  /\ metadata = <<>>
  /\ disk = [p \in IndexPaths \cup MetaPaths |-> Missing]
  /\ \E query \in FilterQueries :
       frame = [t \in Framed |->
                  IF t = "parse" THEN [query |-> query] ELSE NoLocal]
  /\ pc = [t \in Threads |-> IF t = "parse" THEN "called" ELSE "idle"]
  /\ addLocal = NoLocal
  /\ searchLocal = NoLocal
  /\ saveLocal = NoLocal
  /\ recommend_counts = [t \in {} |-> 0]
  /\ added = <<>>
  /\ ret = NoRet
  /\ cls = NoSingletons

\* parse_filters (lines 47-122), from  q = (query or "").lower()  to the return
ParseFilters ==
  /\ pc["parse"] = "called"
  /\ ret' = [op |-> "parse_filters", res |-> "ok", query |-> frame["parse"].query,
             filters |-> parse_filters(frame["parse"].query.words)]
  /\ frame' = [frame EXCEPT !["parse"] = NoLocal]
  /\ pc' = [pc EXCEPT !["parse"] = "idle"]
  /\ UNCHANGED <<cls, index, metadata, disk, addLocal, searchLocal, saveLocal,
                 recommend_counts, added>>

NextFilters == ParseFilters

SpecFilters == InitFilters /\ [][NextFilters]_vars

\* the retry delays, in tenths of a second, of the configs that are used
Backoffs == {0, DefaultBackoff, 10}

\* Generator.generate and RAGGenerator.generate called one after the other
NextGenerator ==
  \/ \E retries \in -1..MaxRetries, retry_backoff_s \in Backoffs :
       Alone("ollama") /\ GeneratorCall(retries, retry_backoff_s)
  \/ GeneratorAttempt
  \/ \E style \in Styles : Alone("generate") /\ RagGenerateCall(style)
  \/ RagGenerateReturn

SpecGenerator == Init /\ [][NextGenerator]_vars

\* the queries and the conversation histories the service is called with
ServiceQueries ==
  {Query(<<"Cozy", "mystery">>), Query(<<"self-harm", "stories">>), EmptyQuery}

Histories == {<<>>, <<[user |-> "hello", bot |-> "hi"]>>}

\* what the Ollama server does during a call: answer, time out, answer nothing
Backends == {"text", "error", "blank"}

\* the style labels of the UI, no style, and a label the UI does not have
ServiceStyles == {"none", "default", "friendly", "formal", "concise", "detailed", "noir"}

\* recommend called again and again on a service whose index holds catalog rows
NextService ==
  \/ \E i \in NextRows :
       LET vs == Array2(Dim, <<Catalog[i].vec>>) IN
         Alone("add") /\ Fits(vs, MaxServed) /\ AddCall(vs, <<Catalog[i].meta>>)
  \/ Alone("add") /\ AddExtend
  \/ \E query \in ServiceQueries, style \in ServiceStyles, use_mood \in BOOLEAN,
        explain \in BOOLEAN, second_opinion \in BOOLEAN, history \in Histories,
        backend \in Backends :
       Alone("recommend")
         /\ RecommendCall(query, style, use_mood, explain, second_opinion, history,
                          backend)
  \/ Alone("recommend") /\ RecommendRun

SpecService == Init /\ [][NextService]_vars

\* the docs the context is built from: with and without genres, with a short
\* text, with a text longer than max_text_chars, and with a text whose first
\* word alone is longer
ContextDocs ==
  {RetrievedDoc([metadata |-> Catalog[1].meta, similarity |-> ScoreOne]),
   RetrievedDoc([metadata |-> Book("Saga", "Long", Num(40), GenreStr(<<>>), NoPages,
                                   <<"{250}", "dark", "{250}">>),
                 similarity |-> ScoreOne \div 2]),
   RetrievedDoc([metadata |-> Book("Tome", "Long", NoRating, GenreStr(<<<<"Fantasy">>>>),
                                   NoPages, <<"{450}", "magic">>),
                 similarity |-> ScoreOne \div 4])}

\* run has reranked the docs and is about to build the context
InitContext ==
  /\ index = <<>>
  /\ metadata = <<>>
  /\ disk = [p \in IndexPaths \cup MetaPaths |-> Missing]
  /\ \E reranked \in SeqsUpTo(ContextDocs, MaxListed), n_recs \in {2, MaxListed} :
       frame = [t \in Framed |->
                  IF t = "context"
                  THEN [query |-> Query(<<"Cozy", "mystery">>), reranked |-> reranked,
                        n_recs |-> n_recs]
                  ELSE NoLocal]
  /\ pc = [t \in Threads |-> IF t = "context" THEN "called" ELSE "idle"]
  /\ addLocal = NoLocal
  /\ searchLocal = NoLocal
  /\ saveLocal = NoLocal
  /\ recommend_counts = [t \in {} |-> 0]
  /\ added = <<>>
  /\ ret = NoRet
  /\ cls = NoSingletons

NextContext == ContextBuild \/ ContextSend

SpecContext == InitContext /\ [][NextContext]_vars

\* the books a result can recommend: with either spelling of the key, and
\* with a title of blanks
CountBooks == {[Title |-> "Dune"], [title |-> "Emma"], [title |-> " "]}

\* the results of lines 132-166: the pipeline's, and the fallback of the two
\* handlers, which recommends nothing
CountResults ==
  {[answer |-> [kind |-> "text"], recommended_books |-> books] :
     books \in SeqsUpTo(CountBooks, MaxBooks)}
    \cup {[answer |-> FallbackAnswer(e), recommended_books |-> <<>>] : e \in LLMErrors}

\* results returned one after the other by one service, and the statistics
\* read in between
NextCounts ==
  \/ \E result \in CountResults : RecommendTail(result)
  \/ get_recommendation_stats

SpecCounts == Init /\ [][NextCounts]_vars

\* the three kinds of serving call (search on the store, retrieve, recommend)
\* and add, one call after the other on a store built from the catalog
NextServing ==
  \/ \E i \in NextRows :
       LET vs == Array2(Dim, <<Catalog[i].vec>>) IN
         Alone("add") /\ Fits(vs, MaxShelf) /\ AddCall(vs, <<Catalog[i].meta>>)
  \/ Alone("add") /\ AddExtend
  \/ \E q \in QueryVecs, k \in 1..MaxK : Alone("search") /\ SearchIndex(q, k)
  \/ Alone("search") /\ SearchLoop
  \/ Alone("search") /\ SearchReturn
  \/ \E query \in Queries, k \in 1..MaxK, rerank \in BOOLEAN :
       Alone("retrieve") /\ RetrieveEmbed(query, k, rerank)
  \/ Alone("retrieve") /\ RetrieveSearch
  \/ Alone("retrieve") /\ RetrieveReturn
  \/ \E query \in ServiceQueries, style \in Styles, backend \in Backends :
       Alone("recommend")
         /\ RecommendCall(query, style, FALSE, FALSE, FALSE, <<>>, backend)
  \/ Alone("recommend") /\ RecommendRun

SpecServing == Init /\ [][NextServing]_vars

\* constructions of the service by two callers of one process, interleaved
\* statement by statement
NextSingletons == \E t \in Constructors : Construct(t)

SpecSingletons == Init /\ [][NextSingletons]_vars

-----------------------------------------------------------------------------
(* Claims about VectorStore.                                               *)

NotFound == {"FileNotFoundError:index", "FileNotFoundError:metadata"}

\* C1: between add calls (accepted or rejected) the index holds as many rows
\* as there are metadata records, and row i and record i are the i-th pair
\* ever accepted: positions are appended to, never reordered.
C1_Aligned ==
  Idle("add") =>
    /\ Len(index) = Len(metadata)
    /\ Len(index) = Len(added)
    /\ \A i \in DOMAIN added : index[i] = added[i][1] /\ metadata[i] = added[i][2]

\* two different pairs are stored and the last call was rejected
C1_Witness ==
  /\ Idle("add")
  /\ Len(index) >= 2
  /\ index[1] # index[2]
  /\ metadata[1] # metadata[2]
  /\ ret.op = "add"
  /\ ret.res # "ok"

\* C2: a search that has read the index never reads a metadata list of another
\* length, and a save never writes an index and a metadata list of different
\* lengths, whatever add does meanwhile.
C2_AddAtomicForObservers ==
  /\ pc["search"] = "loop" => Len(metadata) = searchLocal.ntotal
  /\ ret.op = "save" => ret.nIndex = ret.nMeta

\* C3: a vector of the wrong length makes add fail with the dimension error, a
\* wrong number of records makes it fail, with the length error when the array
\* is (n, dim), and a failed add changes neither the index nor the metadata.
C3_AddRejects ==
  /\ [](ret.op = "add" =>
          /\ ret.rowBad => ret.res = "ValueError:dimension"
          /\ ret.countBad => ret.res # "ok"
          /\ (ret.countBad /\ ret.shaped) => ret.res = "ValueError:length")
  /\ [][(ret'.op = "add" /\ ret'.res # "ok") =>
          (index' = index /\ metadata' = metadata)]_vars

\* a non-empty store after an add rejected for both reasons at once
C3_Witness ==
  /\ ret.op = "add"
  /\ ret.rowBad
  /\ ret.countBad
  /\ ret.res = "ValueError:dimension"
  /\ Len(index) >= 1
  /\ Len(metadata) = Len(index)

\* C4: search returns at most k hits, in non-decreasing order of distance.
C4_SearchBounded ==
  ret.op = "search" =>
    /\ Len(ret.hits) <= ret.k
    /\ \A i, j \in DOMAIN ret.hits : i < j => ret.hits[i].distance <= ret.hits[j].distance

\* the index holds more than k rows and two hits differ in distance
C4_Witness ==
  /\ ret.op = "search"
  /\ ret.ntotal > ret.k
  /\ Len(ret.hits) = ret.k
  /\ ret.k >= 2
  /\ ret.hits[1].distance < ret.hits[2].distance

\* the entries of the index result that name a stored row
NamedRows(raw, n) == SelectSeq(raw, LAMBDA e : e.idx >= 0 /\ e.idx < n)

\* C5: on a store of n items search returns min(k, n) hits, one per row the
\* index named, each with the record and the distance of that row; the empty
\* slots of the index result give no hit.
C5_SearchHits ==
  ret.op = "search" =>
    LET named == NamedRows(ret.raw, ret.ntotal) IN
      /\ Len(ret.hits) = Min(ret.k, ret.ntotal)
      /\ Len(ret.hits) = Len(named)
      /\ \A i \in DOMAIN ret.hits :
           /\ ret.hits[i].metadata = metadata[named[i].idx + 1]
           /\ ret.hits[i].distance = Dist(ret.q, index[named[i].idx + 1])

\* k exceeds the rows of a non-empty store: the index result has empty slots
C5_Witness ==
  /\ ret.op = "search"
  /\ ret.ntotal >= 2
  /\ ret.k > ret.ntotal
  /\ Len(ret.hits) = ret.ntotal
  /\ \E i \in DOMAIN ret.raw : ret.raw[i].idx = -1
  /\ ret.hits[1].metadata # ret.hits[2].metadata

\* a search of the empty store
C5_WitnessEmpty == ret.op = "search" /\ ret.ntotal = 0 /\ ret.hits = <<>>

\* C6: load of two artifacts of different lengths fails with the
\* corrupt-artifact error and hands out no store.
C6_LoadRejectsMismatch ==
  (ret.op = "load" /\ ret.hasIndex /\ ret.hasMeta /\ ret.nIndex # ret.nMeta) =>
    (ret.res = "CorruptArtifact" /\ ret.store = NoStore)

\* C7: load with the index file or the metadata file missing fails with the
\* not-found error, hands out no store and reads neither file; a load that
\* succeeds has read both.
C7_LoadNotFound ==
  ret.op = "load" =>
    /\ (~ret.hasIndex \/ ~ret.hasMeta) =>
         (ret.res \in NotFound /\ ret.store = NoStore /\ ret.reads = {})
    /\ ret.res = "ok" => ret.reads = {ret.ip, ret.mp}

\* the index file is there, its companion is not
C7_Witness ==
  /\ ret.op = "load"
  /\ ret.hasIndex
  /\ ~ret.hasMeta
  /\ ret.res = "FileNotFoundError:metadata"

-----------------------------------------------------------------------------
(* Claims about Retriever.retrieve.                                        *)

Reranked == ret.op = "retrieve" /\ ret.rerank /\ ret.res = "ok"

\* C8: with rerank=true, retrieve returns the search hits rearranged so that
\* scores never increase down the list, and two candidates with the same
\* score stay in the order the search returned them in.
C8_RerankSortedStable ==
  Reranked =>
    /\ Len(ret.out) = Len(ret.hits)
    /\ Range(ret.perm) = 1..Len(ret.hits)
    /\ \A i \in 1..Len(ret.out) :
         /\ ret.out[i].metadata = ret.hits[ret.perm[i]].metadata
         /\ ret.out[i].distance = ret.hits[ret.perm[i]].distance
    /\ \A i, j \in 1..Len(ret.out) :
         i < j => /\ ret.out[i].score >= ret.out[j].score
                  /\ ret.out[i].score = ret.out[j].score => ret.perm[i] < ret.perm[j]

\* two different books with the same score come back in search order
C8_Witness ==
  /\ Reranked
  /\ Len(ret.out) = 2
  /\ ret.out[1].score = ret.out[2].score
  /\ ret.out[1].metadata # ret.out[2].metadata
  /\ ret.perm = <<1, 2>>

\* C9: every candidate retrieve returns with rerank=true has a final score
\* between 0 and 1, whatever rating its record stores.
C9_ScoreInUnitRange ==
  Reranked => \A i \in 1..Len(ret.out) : ret.out[i].score >= 0 /\ ret.out[i].score <= ScoreOne

\* the signals of lines 216-232 for one candidate
Signals(query, meta) ==
  [overlap |-> Cardinality(QTokens(query) \cap Range(Lower(Flatten(meta.genres.labels)))),
   theme |-> ThemeThirds(query, meta.text),
   tone |-> ToneHalves(query, meta.text),
   mismatch |-> _is_tone_mismatch(query, meta.text)]

\* C17: of two candidates of a reranked result with the same distance and the
\* same genre, theme and tone signals, the one with the higher rating has the
\* higher score and comes first.
C17_HigherRatingFirst ==
  Reranked =>
    \A i, j \in 1..Len(ret.out) :
      ( /\ ret.out[i].distance = ret.out[j].distance
        /\ Signals(ret.query.words, ret.out[i].metadata)
             = Signals(ret.query.words, ret.out[j].metadata)
        /\ RatingOf(ret.out[i].metadata) > RatingOf(ret.out[j].metadata) )
      => (ret.out[i].score > ret.out[j].score /\ i < j)

\* C18: retrieve called with "" or with blanks only returns [] without an
\* exception and without a search of the index.
C18_BlankQueryReturnsEmpty ==
  (ret.op = "retrieve" /\ ret.query.words = <<>>) =>
    /\ ret.res = "ok"
    /\ ret.out = <<>>
    /\ ~ret.searched

\* C19: with rerank=false, retrieve returns the search hits in search order
\* (distances never decreasing), each with a similarity computed from its
\* distance and a score equal to that similarity.
C19_UnrankedCarrySimilarity ==
  (ret.op = "retrieve" /\ ~ret.rerank /\ ret.res = "ok") =>
    /\ Len(ret.out) = Len(ret.hits)
    /\ \A i \in 1..Len(ret.out) :
         /\ ret.out[i].metadata = ret.hits[i].metadata
         /\ ret.out[i].distance = ret.hits[i].distance
         /\ "similarity" \in DOMAIN ret.out[i]
         /\ "score" \in DOMAIN ret.out[i]
         /\ ret.out[i].similarity = ScoreOne \div (1 + ret.out[i].distance)
         /\ ret.out[i].score = ret.out[i].similarity
    /\ \A i, j \in 1..Len(ret.out) :
         i < j => ret.out[i].distance <= ret.out[j].distance

\* how many entries of a list carry the record m
Copies(list, m) == Cardinality({i \in 1..Len(list) : list[i].metadata = m})

\* C20: with rerank=true, retrieve returns as many candidates as the search
\* gave and the same records as often, whatever constraints the query states:
\* a candidate that misses a constraint is marked down, not removed.
C20_SoftFiltersKeepAll ==
  Reranked =>
    /\ Len(ret.out) = Len(ret.hits)
    /\ \A i \in 1..Len(ret.hits) :
         Copies(ret.out, ret.hits[i].metadata) = Copies(ret.hits, ret.hits[i].metadata)

\* a book longer than the query allows is returned, behind a shorter one
C20_Witness ==
  /\ Reranked
  /\ parse_filters(ret.query.words).max_pages # None
  /\ Len(ret.out) = 2
  /\ MissesFilter(ret.query.words, ret.out[2].metadata)
  /\ ~MissesFilter(ret.query.words, ret.out[1].metadata)

\* C21: retrieve with rerank=true on a query that is not empty completes
\* whatever the records of the hits hold: a missing rating, a missing page
\* count, or genres stored as a list.
C21_DataQualityNeverRaises ==
  (ret.op = "retrieve" /\ ret.rerank /\ ~ret.query.empty) => ret.res = "ok"

-----------------------------------------------------------------------------
(* Claims about RAGPipeline.run.                                           *)

RunDone == ret.op = "run" /\ ret.res = "ok"

RetrievedTitles == {NormalizeTitle(ret.result.retrieved[j].title) : j \in 1..Len(ret.result.retrieved)}

\* C10: in the result of every pipeline run, each entry of recommended_books
\* has the normalized title of some retrieved entry of the same result; a
\* title the generator's answer names that no retrieved candidate carries is
\* not among the recommended books.
C10_RecommendedAreRetrieved ==
  RunDone =>
    /\ \A i \in 1..Len(ret.result.recommended_books) :
         NormalizeTitle(ret.result.recommended_books[i].title) \in RetrievedTitles
    /\ \A n \in Range(ret.result.answer.names) :
         NormalizeTitle(n) \notin RetrievedTitles =>
           \A i \in 1..Len(ret.result.recommended_books) :
             ret.result.recommended_books[i].title # n

\* a run over retrieved books whose answer names an invented title
C10_Witness ==
  /\ RunDone
  /\ ret.result.retrieved # <<>>
  /\ \E n \in Range(ret.result.answer.names) : NormalizeTitle(n) \notin RetrievedTitles
  /\ \E n \in Range(ret.result.answer.names) : NormalizeTitle(n) \in RetrievedTitles

\* the phrases the safety gate is to stop, and its two terminal answers
SelfHarmPhrases == {<<"self-harm">>}

RefusalMessage == [kind |-> "refusal"]

ClarificationMessage == [kind |-> "clarification"]

\* C11: a pipeline run on a query that contains a self-harm phrase ends with
\* the refusal result, whose retrieved list is empty, and has called neither
\* the retriever nor the generator.
C11_SafetyGate ==
  (ret.op = "run" /\ AnyIn(SelfHarmPhrases, Lower(ret.query.words))) =>
    /\ ret.res = "ok"
    /\ ret.calls.retriever = 0
    /\ ret.calls.generator = 0
    /\ ret.result.retrieved = <<>>
    /\ ret.result.answer = RefusalMessage

\* C12: a pipeline run on a query that is empty once trimmed ends with the
\* clarification message as answer and an empty retrieved list, and has not
\* called the retriever.
C12_EmptyQueryClarified ==
  (ret.op = "run" /\ ret.query.words = <<>>) =>
    /\ ret.res = "ok"
    /\ ret.calls.retriever = 0
    /\ ret.result.retrieved = <<>>
    /\ ret.result.answer = ClarificationMessage

-----------------------------------------------------------------------------
(* Claims about BookRecommendationService.recommend.                       *)

\* C13: when the backend times out or gives an unusable response, recommend
\* returns normally with no recommended books, with the retriever's
\* candidates for the query as retrieved_books and with the templated
\* fallback answer.
C13_GenerationFailureFallback ==
  (ret.op = "recommend" /\ ret.backend \in {"error", "blank"}) =>
    /\ ret.res = "ok"
    /\ ret.result.recommended_books = <<>>
    /\ ret.result.answer.kind = "fallback"
    /\ \E raw5 \in FaissSearch(index, Embed(ret.query), FallbackTopK) :
         /\ ret.result.retrieved_books = _safe_retrieval(ret.query, raw5)
         /\ SearchHits(raw5, metadata) # <<>> => ret.result.retrieved_books # <<>>

\* C14: whatever the query and the options, recommend returns a result and
\* raises nothing.
C14_NoExceptionEscapes ==
  ret.op = "recommend" => (ret.res = "ok" /\ ret.result # NoResult)

-----------------------------------------------------------------------------
(* Claims about parse_filters.                                             *)

\* the example of the filter syntax shown to users
DocumentedExample ==
  Query(<<"mystery", "rated", "above", "4.2", "under", "350", "pages">>)

\* C15: parse_filters applied to "mystery rated above 4.2 under 350 pages"
\* returns min_rating 4.2 and max_pages 350, and no min_pages.
C15_DocumentedExampleParsed ==
  (ret.op = "parse_filters" /\ ret.query = DocumentedExample) =>
    /\ ret.res = "ok"
    /\ ret.filters.min_rating = Num(42)
    /\ ret.filters.max_pages = Num(350)
    /\ ret.filters.min_pages = None

\* the match sets of the patterns of one field, in the order of the code
MaxPagesPatterns(q) ==
  <<PagesMatches(q, {<<"under">>, <<"below">>, <<"less", "than">>}),
    PagesMatches(q, {<<"<">>})>>

MinPagesPatterns(q) ==
  <<PagesMatches(q, {<<"over">>, <<"more", "than">>, <<"at", "least">>}),
    PagesMatches(q, {<<">">>})>>

MinRatingPatterns(q) ==
  <<StarsMatches(q, {<<"above">>, <<"over">>, <<"at", "least">>}),
    RatingMatches(q, {<<"above">>, <<"over">>, <<"at", "least">>}),
    StarsMatches(q, {<<">=">>})>>

\* the number the first pattern that matches captures, if any pattern matches
FirstMatch(patterns) ==
  IF \A i \in 1..Len(patterns) : patterns[i] = {} THEN "none"
  ELSE LET i == CHOOSE c \in 1..Len(patterns) :
                  /\ patterns[c] # {}
                  /\ \A b \in 1..(c - 1) : patterns[b] = {}
       IN Leftmost(patterns[i]).w

\* C16: parse_filters returns for every argument, also None and ""; each
\* field is decided by the first pattern of its list that matches, whatever
\* later patterns match and wherever in the query; a field none of whose
\* patterns matches is absent, and a field is zero only if the matched number
\* is zero.
C16_FirstPatternDecides ==
  ret.op = "parse_filters" =>
    LET q == Lower(ret.query.words)
        max_pages == FirstMatch(MaxPagesPatterns(q))
        min_pages == FirstMatch(MinPagesPatterns(q))
        min_rating == FirstMatch(MinRatingPatterns(q))
    IN /\ ret.res = "ok"
       /\ ret.filters.max_pages =
            (IF max_pages = "none" THEN None ELSE Num(_parse_int(max_pages)))
       /\ ret.filters.min_pages =
            (IF min_pages = "none" THEN None ELSE Num(_parse_int(min_pages)))
       /\ ret.filters.min_rating =
            (IF min_rating = "none" THEN None ELSE Num(_parse_float(min_rating)))
       /\ ret.query.words = <<>> =>
            ret.filters = [max_pages |-> None, min_pages |-> None, min_rating |-> None]

\* a query with "< 350 pages" before "under 300 pages": the under pattern wins
C16_Witness ==
  /\ ret.op = "parse_filters"
  /\ ret.query = Query(<<"mystery", "<", "350", "pages", "under", "300", "pages">>)
  /\ ret.filters = [max_pages |-> Num(300), min_pages |-> None, min_rating |-> None]

-----------------------------------------------------------------------------
(* Claims about the prompt directives.                                     *)

\* the directives each UI style stands for
StyleTable(style) ==
  CASE style = "friendly" -> [terseness |-> "none", personality |-> "friendly"]
    [] style = "formal" -> [terseness |-> "none", personality |-> "academic"]
    [] style = "concise" -> [terseness |-> "very short", personality |-> "none"]
    [] style = "detailed" -> [terseness |-> "more detailed", personality |-> "none"]
    [] OTHER -> [terseness |-> "none", personality |-> "none"]

\* C22: recommend returns for every style, known or not, and the prompt it
\* had built carries the terseness and the personality directive of the
\* style table.
C22_StyleMapping ==
  ret.op = "recommend" =>
    /\ ret.res = "ok"
    /\ ret.directives = StyleTable(ret.style)

-----------------------------------------------------------------------------
(* Claims about the two generators.                                        *)

\* a direct call of Generator.generate has returned or raised
OllamaDone == ret.op = "ollama"

\* the attempts all raised
AllRaised(log) == \A i \in 1..Len(log) : log[i].kind = "raise"

\* attempts, outcome and waits of a call, apart from the string returned for
\* an attempt that did not raise: at most retries + 1 attempts, each but the
\* last one raised, the wait before retry i is retry_backoff_s * i, and no
\* wait follows the last attempt
RetryDiscipline ==
  /\ ret.res = "ok"
  /\ ret.calls = Len(ret.log)
  /\ ret.calls <= ret.retries + 1
  /\ \A i \in 1..(Len(ret.log) - 1) : ret.log[i].kind = "raise"
  /\ AllRaised(ret.log) => (ret.calls = Max(ret.retries + 1, 0) /\ ret.out = TroubleMessage)
  /\ Len(ret.slept) = Max(Len(ret.log) - 1, 0)
  /\ \A i \in 1..Len(ret.slept) : ret.slept[i] = ret.retry_backoff_s * i

\* C23 as stated: Generator.generate returns without raising after at most
\* retries + 1 attempts, with the content of the first attempt that did not
\* raise or, if all raised, with the fixed message; waits grow linearly and
\* none follows the last attempt.
C23_ReturnsFirstContent ==
  OllamaDone =>
    /\ RetryDiscipline
    /\ ~AllRaised(ret.log) => ret.out = Strip(ret.log[Len(ret.log)].content)

\* C23, amended: as above, but an attempt that does not raise and whose
\* content is missing, empty or blank ends the call with the other fixed
\* message, without a retry.
C23_RetryBound ==
  OllamaDone =>
    /\ RetryDiscipline
    /\ ~AllRaised(ret.log) =>
         ret.out = (IF Strip(ret.log[Len(ret.log)].content).words = <<>>
                    THEN ApologyMessage
                    ELSE Strip(ret.log[Len(ret.log)].content))

\* two attempts raise, the third answers: two waits, the second twice the first
C23_Witness ==
  /\ OllamaDone
  /\ ret.retries = 2
  /\ ret.retry_backoff_s = DefaultBackoff
  /\ ret.calls = 3
  /\ ret.slept = <<7, 14>>
  /\ ret.out = Text(<<"Try", "Dune">>, FALSE)

-----------------------------------------------------------------------------
(* Claims about the construction of the service.                           *)

\* C24: once no construction is in flight, at most one Retriever, one
\* RAGGenerator and one RAGPipeline have been built (exactly one of each when
\* a service exists), and all the services constructed hold the same
\* retriever, vector store, generator and pipeline.
C24_SingletonsBuiltOnce ==
  (\A t \in Constructors : Idle(t)) =>
    /\ \A c \in Classes : cls.built[c] <= 1
    /\ cls.instances # {} => \A c \in Classes : cls.built[c] = 1
    /\ Cardinality(cls.instances) <= 1

-----------------------------------------------------------------------------
(* Claims about the state shared by the requests.                          *)

\* a step of a search, retrieve or recommend call
ServingStep ==
  \E t \in {"search", "retrieve", "recommend"} : pc[t] # "idle" \/ pc'[t] # "idle"

\* C25: no step of a search, retrieve or recommend call, whether the call
\* ends in a result or in an error, changes the stored vectors, the metadata
\* records or their order; every change of them is a step of add.
C25_ServingLeavesCatalog ==
  [][/\ ServingStep => UNCHANGED <<index, metadata>>
     /\ (index' # index \/ metadata' # metadata) =>
          (pc["add"] # "idle" \/ pc'["add"] # "idle")]_vars

\* a call that ended in an error, and one that returned hits, on a store of
\* two records that are still the two rows add was given
C25_Witness ==
  /\ Len(index) = 2
  /\ Len(metadata) = 2
  /\ \A i \in 1..2 : added[i] = <<index[i], metadata[i]>>
  /\ \/ ret.op = "recommend" /\ ret.res # "ok"
     \/ ret.op = "search" /\ Len(ret.hits) = 2

-----------------------------------------------------------------------------
(* Claims about the score of rerank_results.                               *)

\* the fraction num/den of 0.01, in the unit of the scores
Fraction(num, den) == (Cent * num) \div den

\* the weighted sum as the formula states it, for a query and one hit
WeightedSum(query, meta, distance) ==
  LET q_tokens == {LowerWord(w) : w \in Range(query)}
      genre_tokens == {LowerWord(w) : w \in Range(Flatten(meta.genres.labels))}
      themes == {g \in DOMAIN THEME_KEYWORDS :
                   /\ AnyIn(THEME_KEYWORDS[g], Lower(query))
                   /\ AnyIn(THEME_KEYWORDS[g], Lower(meta.text))}
      tones == {g \in DOMAIN TONE_KEYWORDS :
                  /\ AnyIn(TONE_KEYWORDS[g], Lower(query))
                  /\ AnyIn(TONE_KEYWORDS[g], Lower(meta.text))}
  IN 60 * Fraction(1, 1 + distance)
     + 15 * Fraction(RatingOf(meta), 50)
     + 10 * Fraction(Cardinality(q_tokens \cap genre_tokens), Cardinality(q_tokens) + 1)
     + 10 * Min(Fraction(Cardinality(themes), 3), Cent)
     + 5 * Min(Fraction(Cardinality(tones), 2), Cent)

\* C26: with rerank=true the score of every hit is the weighted sum
\* 0.60 similarity + 0.15 rating/5 + 0.10 genre overlap + 0.10 theme overlap
\* + 0.05 tone alignment, marked down by the penalties of the hit; the
\* similarity reported is 1/(1 + distance), smaller for a larger distance.
C26_BaseScoreWeightedSum ==
  Reranked =>
    /\ \A i \in DOMAIN ret.out :
         /\ ret.out[i].score =
              Penalised(WeightedSum(ret.query.words, ret.out[i].metadata,
                                    ret.out[i].distance),
                        ret.query.words, ret.out[i].metadata)
         /\ ret.out[i].similarity = 100 * Fraction(1, 1 + ret.out[i].distance)
    /\ \A i, j \in DOMAIN ret.out :
         ret.out[i].distance < ret.out[j].distance =>
           ret.out[i].similarity > ret.out[j].similarity

\* a hit with a rating, a genre word, a theme and a tone of the query, ranked
\* with a hit farther away
C26_Witness ==
  /\ Reranked
  /\ ret.query.words = <<"Cozy", "mystery">>
  /\ Len(ret.out) = 2
  /\ ret.out[1].distance = 0
  /\ ret.out[2].distance = 1
  /\ ret.out[1].metadata.title = "Ash"
  /\ ret.out[1].score = WeightedSum(ret.query.words, ret.out[1].metadata, 0)
  /\ ret.out[1].score = 60 * Cent + 15 * Fraction(49, 50) + 10 * Fraction(1, 3)
                          + 10 * Fraction(1, 3) + 5 * Fraction(1, 2)

\* the filters of the query that the record violates, a missing rating
\* counting as 0 and a missing page count violating nothing
Violated(filters, meta) ==
  {f \in {"min_rating", "max_pages", "min_pages"} :
     CASE f = "min_rating" ->
            filters.min_rating # None /\ RatingOf(meta) < filters.min_rating.v
       [] f = "max_pages" ->
            /\ filters.max_pages # None
            /\ PagesOf(meta) # None
            /\ PagesOf(meta).v > filters.max_pages.v
       [] f = "min_pages" ->
            /\ filters.min_pages # None
            /\ PagesOf(meta) # None
            /\ PagesOf(meta).v < filters.min_pages.v}

RECURSIVE TimesSixTenths(_, _)
TimesSixTenths(score, n) ==
  IF n = 0 THEN score ELSE TimesSixTenths((score \div 5) * 3, n - 1)

\* C27: the score of every candidate is its weighted sum times 0.6 for each
\* filter it violates (rating below min_rating, a missing rating being 0;
\* pages above max_pages; pages below min_pages; no page penalty without a
\* page count) and times 0.8 exactly when the query has a cozy keyword and
\* the text a dark one.
C27_PenaltiesStack ==
  Reranked =>
    \A i \in DOMAIN ret.out :
      LET meta == ret.out[i].metadata
          base == BaseScore(ret.query.words, meta, ret.out[i].distance)
          marked == TimesSixTenths(base,
                                   Cardinality(Violated(parse_filters(ret.query.words), meta)))
          clash == /\ AnyIn(TONE_KEYWORDS["cozy"], Lower(ret.query.words))
                   /\ AnyIn(TONE_KEYWORDS["dark"], Lower(meta.text))
      IN ret.out[i].score = IF clash THEN (marked \div 5) * 4 ELSE marked

-----------------------------------------------------------------------------
(* Claims about RAGGenerator.generate.                                     *)

\* the last attempt of the backend call answered with nothing but blanks
LastBlank(log) ==
  /\ log # <<>>
  /\ log[Len(log)].kind = "reply"
  /\ Strip(log[Len(log)].content).words = <<>>

\* C28: generate returns a non-empty answer with the raw model output, or
\* fails with LLMTimeoutError when the backend call raised, or with
\* LLMResponseFormatError when the backend returned an empty response; it
\* never returns an empty answer.
C28_AnswerOrGenerationError ==
  ret.op = "generate" =>
    /\ ret.res \in {"ok"} \cup LLMErrors
    /\ ret.res = "ok" => (ret.answer # <<>> /\ ret.raw_model_output.words # <<>>)
    /\ AllRaised(ret.log) => ret.res = "LLMTimeoutError"
    /\ LastBlank(ret.log) => ret.res = "LLMResponseFormatError"

-----------------------------------------------------------------------------
(* Claims about the context sent to the backend.                           *)

\* C29: the context sent to the backend has at most max_docs blocks, each
\* with the title, author, genres, rating and description of a candidate and
\* nothing else, the description no longer than max_text_chars characters
\* and the three of "..."; no similarity, distance or score is in it.
C29_ContextHasNoScores ==
  ret.op = "context" =>
    LET context == ret.prompt.user.context IN
      /\ DOMAIN ret.prompt = {"system", "user"}
      /\ DOMAIN ret.prompt.user = {"history", "query", "context"}
      /\ Len(context) = Min(Len(ret.top_docs), MaxDocs)
      /\ \A i \in DOMAIN context :
           /\ DOMAIN context[i] = {"title", "author", "genres", "rating", "description"}
           /\ context[i].title = ret.top_docs[i].title
           /\ context[i].author = ret.top_docs[i].author
           /\ context[i].description.chars <= MaxTextChars + 3
           /\ \A j \in DOMAIN context[i].description.words :
                context[i].description.words[j] = ret.top_docs[i].retrieval_text[j]

\* six candidates, five blocks; one description cut at a blank and one cut
\* inside its first word
C29_Witness ==
  /\ ret.op = "context"
  /\ Len(ret.top_docs) = MaxDocs + 1
  /\ Len(ret.prompt.user.context) = MaxDocs
  /\ \E i, j \in DOMAIN ret.prompt.user.context :
       /\ ret.prompt.user.context[i].description =
            [words |-> <<"{250}", "dark">>, clipped |-> FALSE, ellipsis |-> TRUE,
             chars |-> 258]
       /\ ret.prompt.user.context[j].description.clipped
       /\ ret.prompt.user.context[j].description.chars = MaxTextChars + 3

-----------------------------------------------------------------------------
(* Claims about the recommendation statistics.                             *)

CountOf(counts, title) == IF title \in DOMAIN counts THEN counts[title] ELSE 0

\* the books of the results returned that carry the title
Appearances(returned, title) ==
  Cardinality({<<i, j>> \in (DOMAIN returned) \X (1..MaxBooks) :
                 /\ j \in DOMAIN returned[i]
                 /\ StripTitle(IF "title" \in DOMAIN returned[i][j]
                               THEN returned[i][j].title
                               ELSE returned[i][j].Title) = title})

\* C30: after every step the count of each non-empty title is the number of
\* books with that title in the recommended_books of the results returned so
\* far, and nothing is counted for an empty title; the statistics report
\* these counts; no count decreases; a result that recommends nothing, as
\* the fallback does, leaves the counts as they were.
C30_CountsMatchAppearances ==
  [][/\ \A title \in {"Dune", "Emma", "Atlas"} :
          /\ CountOf(recommend_counts', title) = Appearances(Returned', title)
          /\ CountOf(recommend_counts', title) >= CountOf(recommend_counts, title)
     /\ DOMAIN recommend_counts' \subseteq {"Dune", "Emma"}
     /\ ret'.op = "stats" => ret'.stats = recommend_counts
     /\ (ret'.op = "recommend" /\ ret'.result.recommended_books = <<>>) =>
          recommend_counts' = recommend_counts]_vars

\* two results returned, one book recommended in both, one book with a title
\* of blanks, and the statistics read afterwards
C30_Witness ==
  /\ ret.op = "stats"
  /\ ret.returned = <<<<[Title |-> "Dune"], [title |-> " "]>>,
                      <<[title |-> "Emma"], [Title |-> "Dune"]>>>>
  /\ ret.stats = [title \in {"Dune", "Emma"} |-> IF title = "Dune" THEN 2 ELSE 1]

====
